---- MODULE Spec2Model ----
(***************************************************************************)
(* Loyalty platform: the ledger service (mock TigerBeetle repository       *)
(* behind its HTTP handlers) and the accrual stream processor that posts   *)
(* transfers to it.                                                        *)
(*                                                                         *)
(* Strings are sequences of tokens, so that fmt.Sprintf is modelled as     *)
(* the concatenation it performs.  The empty string is <<>>.               *)
(* uint64 arithmetic is modelled modulo 2^UintBits.  Timestamps and log    *)
(* output are left out: no modelled decision reads them.                   *)
(***************************************************************************)
EXTENDS Integers, Sequences, FiniteSets, TLC

\* ------------------------------------------------------------------ bounds
\* width of the unsigned counters of the model (uint64 in the source)
UintBits == 10
\* at most this many transfers are recorded in a run of the ledger
MaxTransfers == 2
\* at most this many accounts are created through CreateAccount
MaxCreated == 2

UintMod == 2^UintBits

\* ----------------------------------------------------------------- strings
EmptyStr == <<>>
OrgA == <<"a">>
OrgAB == <<"a", "_", "b">>
CustC == <<"c">>
CustBC == <<"b", "_", "c">>

\* (org_id, customer_id) pairs of the requests; the last two are different
\* customers of different organizations
Pairs == {<<OrgA, CustC>>, <<OrgAB, CustC>>, <<OrgA, CustBC>>}

PointsAccrual == <<"points", "_accrual">>
StampsAccrual == <<"stamps", "_accrual">>
PointsRedemption == <<"points", "_redemption">>
StampsRedemption == <<"stamps", "_redemption">>
GiftRedemption == <<"gift", "_redemption">>
TxTypes == {PointsAccrual, StampsAccrual, PointsRedemption, StampsRedemption,
            GiftRedemption}

HasSuffix(s, tok) == Len(s) > 0 /\ s[Len(s)] = tok

\* ------------------------------------------------------------------ ledger
\* accounts:  the repository's map from account id to Account
\* transfers: the repository's transfers, in the order they were recorded
\*            (the n-th one has the n-th generated id)
\* created:   how many accounts CreateAccount has stored
\* last:      the last request the HTTP handlers served, with its status
VARIABLES accounts, transfers, created, last

ledgerVars == <<accounts, transfers, created, last>>

generateStringID(n) == <<"hex", ToString(n)>>

generateOrgLiabilityAccount(orgID) == <<"liability", "_">> \o orgID

generateCustomerPointsAccount(orgID, customerID) ==
    <<"points", "_">> \o orgID \o <<"_">> \o customerID

generateCustomerStampsAccount(orgID, customerID) ==
    <<"stamps", "_">> \o orgID \o <<"_">> \o customerID

NewAccount(id, org, cust, type, code) ==
    [ID |-> id, OrgID |-> org, CustomerID |-> cust, AccountType |-> type,
     Code |-> code, DebitsPosted |-> 0, CreditsPosted |-> 0]

\* the accounts map with one more key (or one key overwritten)
Put(accts, id, acct) ==
    [k \in (DOMAIN accts) \cup {id} |-> IF k = id THEN acct ELSE accts[k]]

\* variant: both counters of the account move
updateAccountBalance_both(accts, accountID, amount, isDebit) ==
    LET account == IF accountID \in DOMAIN accts
                   THEN accts[accountID]
                   ELSE NewAccount(accountID, EmptyStr, EmptyStr, 0, 0)
    IN  Put(accts, accountID,
            [account EXCEPT !.DebitsPosted = (@ + amount) % UintMod,
                            !.CreditsPosted = (@ + amount) % UintMod])

updateAccountBalance(accts, accountID, amount, isDebit) ==
    LET account == IF accountID \in DOMAIN accts
                   THEN accts[accountID]
                   ELSE NewAccount(accountID, EmptyStr, EmptyStr, 0, 0)
    IN  Put(accts, accountID,
            IF isDebit
            THEN [account EXCEPT !.DebitsPosted = (@ + amount) % UintMod]
            ELSE [account EXCEPT !.CreditsPosted = (@ + amount) % UintMod])

\* variant: the direction follows the suffix of the transaction type
TransferAccounts_suffix(req) ==
    LET liability == generateOrgLiabilityAccount(req.OrgID)
        customer == generateCustomerPointsAccount(req.OrgID, req.CustomerID)
    IN  IF HasSuffix(req.TransactionType, "_redemption")
        THEN [debit |-> customer, credit |-> liability]
        ELSE [debit |-> liability, credit |-> customer]

\* the repository's CreateTransfer: the debit and the credit account id
TransferAccounts(req) ==
    LET liability == generateOrgLiabilityAccount(req.OrgID)
        customer == generateCustomerPointsAccount(req.OrgID, req.CustomerID)
    IN  IF req.TransactionType = PointsRedemption
           \/ req.TransactionType = StampsRedemption
        THEN [debit |-> customer, credit |-> liability]
        ELSE [debit |-> liability, credit |-> customer]

\* variant: a transfer whose reference and code are already recorded is
\* not applied again
RepoCreateTransfer_dedup(accts, xfers, req) ==
    LET ids == TransferAccounts(req)
        transfer == [ID |-> generateStringID(Len(xfers) + 1),
                     DebitAccountID |-> ids.debit,
                     CreditAccountID |-> ids.credit,
                     Amount |-> req.Amount,
                     Code |-> req.Code,
                     Reference |-> req.Reference]
    IN  IF \E i \in 1..Len(xfers) :
               xfers[i].Reference = req.Reference /\ xfers[i].Code = req.Code
        THEN [accounts |-> accts, transfers |-> xfers]
        ELSE [accounts |-> updateAccountBalance(
                              updateAccountBalance(accts, ids.debit, req.Amount,
                                                   TRUE),
                              ids.credit, req.Amount, FALSE),
              transfers |-> Append(xfers, transfer)]

\* MockTigerBeetleRepo.CreateTransfer: both balances move and the transfer
\* is recorded under a fresh id
RepoCreateTransfer(accts, xfers, req) ==
    LET ids == TransferAccounts(req)
        transfer == [ID |-> generateStringID(Len(xfers) + 1),
                     DebitAccountID |-> ids.debit,
                     CreditAccountID |-> ids.credit,
                     Amount |-> req.Amount,
                     Code |-> req.Code,
                     Reference |-> req.Reference]
    IN  [accounts |-> updateAccountBalance(
                          updateAccountBalance(accts, ids.debit, req.Amount, TRUE),
                          ids.credit, req.Amount, FALSE),
         transfers |-> Append(xfers, transfer)]

RepoGetBalance(accts, orgID, customerID) ==
    LET pointsAccountID == generateCustomerPointsAccount(orgID, customerID)
        stampsAccountID == generateCustomerStampsAccount(orgID, customerID)
    IN  [points |-> IF pointsAccountID \in DOMAIN accts
                    THEN (accts[pointsAccountID].CreditsPosted
                          - accts[pointsAccountID].DebitsPosted) % UintMod
                    ELSE 0,
         stamps |-> IF stampsAccountID \in DOMAIN accts
                    THEN (accts[stampsAccountID].CreditsPosted
                          - accts[stampsAccountID].DebitsPosted) % UintMod
                    ELSE 0]

\* variant: the amount is not a required field
BindTransferRequest_optional(body) ==
    /\ body.wellformed
    /\ body.Amount \in 0..(UintMod - 1)
    /\ body.OrgID # EmptyStr
    /\ body.TransactionType # EmptyStr

\* gin's ShouldBindJSON on CreateTransferRequest: the body must be JSON, the
\* amount must decode into a uint64, and the fields tagged binding:"required"
\* must not have their zero value
BindTransferRequest(body) ==
    /\ body.wellformed
    /\ body.Amount \in 0..(UintMod - 1)
    /\ body.OrgID # EmptyStr
    /\ body.TransactionType # EmptyStr
    /\ body.Amount # 0

BindAccountRequest(body) ==
    /\ body.wellformed
    /\ body.OrgID # EmptyStr
    /\ body.AccountType # 0

\* request bodies of POST /transfers
TransferBody(org, cust, type, amount, ok) ==
    [wellformed |-> ok, OrgID |-> org, CustomerID |-> cust,
     TransactionType |-> type, Amount |-> amount, Code |-> 1,
     Reference |-> <<"ref">>]

TransferBodies ==
    {TransferBody(p[1], p[2], t, a, TRUE) : p \in Pairs, t \in TxTypes, a \in {1, 2}}
    \cup {TransferBody(OrgA, CustC, t, a, TRUE) :
              t \in {PointsAccrual, PointsRedemption}, a \in {0, -1}}
    \cup {TransferBody(EmptyStr, CustC, PointsAccrual, 1, TRUE),
          TransferBody(OrgA, CustC, EmptyStr, 1, TRUE),
          TransferBody(OrgA, CustC, PointsAccrual, 1, FALSE)}

AccountBody(org, cust, type, code, ok) ==
    [wellformed |-> ok, OrgID |-> org, CustomerID |-> cust,
     AccountType |-> type, Code |-> code]

AccountBodies ==
    {AccountBody(OrgA, CustC, 2, c, TRUE) : c \in {1, 2}}
    \cup {AccountBody(EmptyStr, CustC, 2, 1, TRUE),
          AccountBody(OrgA, CustC, 0, 1, TRUE),
          AccountBody(OrgA, CustC, 2, 1, FALSE)}

NoRequest == [op |-> "none", body |-> <<>>, status |-> 0]

\* the repository's CreateAccount; the n-th generated id is fresh
RepoCreateAccount(accts, n, req) ==
    LET accountID == generateStringID(n)
    IN  Put(accts, accountID,
            NewAccount(accountID, req.OrgID, req.CustomerID, req.AccountType,
                       req.Code))

\* LedgerHandler.CreateTransfer: what one POST /transfers does to the ledger
ServeCreateTransfer(body) ==
    IF ~BindTransferRequest(body)
    THEN /\ last' = [op |-> "CreateTransfer", body |-> body, status |-> 400]
         /\ UNCHANGED <<accounts, transfers>>
    ELSE LET r == RepoCreateTransfer(accounts, transfers, body)
         IN  /\ accounts' = r.accounts
             /\ transfers' = r.transfers
             /\ last' = [op |-> "CreateTransfer", body |-> body, status |-> 201]

\* POST /accounts
HandlerCreateAccount(body) ==
    /\ created < MaxCreated
    /\ IF ~BindAccountRequest(body)
       THEN /\ last' = [op |-> "CreateAccount", body |-> body, status |-> 400]
            /\ UNCHANGED <<accounts, created>>
       ELSE /\ accounts' = RepoCreateAccount(accounts, created + 1, body)
            /\ created' = created + 1
            /\ last' = [op |-> "CreateAccount", body |-> body, status |-> 201]
    /\ UNCHANGED transfers

\* POST /transfers
HandlerCreateTransfer(body) ==
    /\ Len(transfers) < MaxTransfers
    /\ ServeCreateTransfer(body)
    /\ UNCHANGED created

LedgerInit ==
    /\ accounts = <<>>
    /\ transfers = <<>>
    /\ created = 0
    /\ last = NoRequest

\* -------------------------------------------------------- stream processor
\* Amounts and rates are float64 in the source; the model uses exact
\* fractions n/d with d a power of two, which float64 represents and
\* multiplies exactly at these magnitudes.
\* pc:        where ProcessEvent stands for the message in hand
\* ev:        the event in hand
\* loc:       the locals of processPOSTransaction: the outcome of the two
\*            lookups, the settings returned, the earned quantities, and the
\*            length of the ledger's transfer log when the event was fetched
\* result:    the ProcessingResult under construction, then returned
\* calls:     the ledger calls made for the event in hand
\* processed: the number of messages committed
VARIABLES pc, ev, loc, result, calls, processed

streamVars == <<pc, ev, loc, result, calls, processed>>

\* at most this many events are fetched in a run of the processor
MaxEvents == 2

Frac(n, d) == [n |-> n, d |-> d]

Mul(x, y) == Frac(x.n * y.n, x.d * y.d)

\* variant: the conversion to int alone, which truncates toward zero
Floor_trunc(x) == IF x.n >= 0 THEN x.n \div x.d ELSE -((-x.n) \div x.d)

\* math.Floor followed by the conversion to int
Floor(x) == x.n \div x.d

calculatePoints(amount, pointsPerDollar) ==
    IF pointsPerDollar.n <= 0 THEN 0 ELSE Floor(Mul(amount, pointsPerDollar))

Threshold(points, stamps, type) ==
    [Points |-> points, Stamps |-> stamps, RewardType |-> type]

RewardFor(threshold) ==
    [RewardID |-> <<"reward_", ToString(threshold.Points), "_",
                    ToString(threshold.Stamps)>>,
     RewardType |-> threshold.RewardType]

\* variant: both dimensions of a threshold must be reached
Triggered_both(threshold, points, stamps) ==
    /\ threshold.Points > 0 /\ points >= threshold.Points
    /\ threshold.Stamps > 0 /\ stamps >= threshold.Stamps

Triggered(threshold, points, stamps) ==
    \/ threshold.Points > 0 /\ points >= threshold.Points
    \/ threshold.Stamps > 0 /\ stamps >= threshold.Stamps

checkRewardThresholds(thresholds, points, stamps) ==
    LET hit == SelectSeq(thresholds, LAMBDA t : Triggered(t, points, stamps))
    IN  [i \in 1..Len(hit) |-> RewardFor(hit[i])]

\* organization settings the directory may return
PointsPerDollarValues == {Frac(2, 1), Frac(3, 2), Frac(0, 1), Frac(-1, 1)}
StampsPerVisitValues == {1, 0, -1}
ThresholdLists ==
    {<<>>,
     <<Threshold(100, 0, "discount"), Threshold(500, 10, "voucher"),
       Threshold(0, 1, "free_item"), Threshold(75, 5, "gift")>>}

OrgSettings ==
    [PointsPerDollar : PointsPerDollarValues,
     StampsPerVisit : StampsPerVisitValues,
     RewardThresholds : ThresholdLists]

\* events on the consumed topics
TxnID == <<"txn", "_", "123">>
PosAmounts == {Frac(50, 1), Frac(-21, 2), Frac(1, 4)}

POSPayload(amount) ==
    [kind |-> "pos", TransactionID |-> TxnID, Amount |-> amount]

ActionPayload(type, points, stamps) ==
    [kind |-> "action", ActionType |-> type, Points |-> points,
     Stamps |-> stamps, Reference |-> <<"manual", "_", "ref">>]

\* a payload whose fields do not decode into the typed struct
BadPayload == [kind |-> "bad"]

ActionPayloads ==
    {ActionPayload("manual_points", p, 0) : p \in {100, 0, -5}}
    \cup {ActionPayload("bonus_stamps", 0, s) : s \in {2, 0}}
    \cup {ActionPayload("birthday_bonus", 100, 0),
          ActionPayload("referral_bonus", 250, 0),
          ActionPayload("unknown_action", 10, 0)}

Event(ok, type, org, cust, payload) ==
    [wellformed |-> ok, EventType |-> type, OrgID |-> org,
     CustomerID |-> cust, Payload |-> payload]

Events ==
    {Event(TRUE, "pos.transaction", OrgA, CustC, POSPayload(a)) : a \in PosAmounts}
    \cup {Event(TRUE, "loyalty.action", OrgA, CustC, p) : p \in ActionPayloads}
    \cup {Event(TRUE, "pos.transaction", OrgA, CustC, BadPayload),
          Event(TRUE, "loyalty.action", OrgA, CustC, BadPayload),
          Event(TRUE, "customer.updated", OrgA, CustC, BadPayload),
          Event(FALSE, "", EmptyStr, EmptyStr, BadPayload)}

NoEvent == Event(FALSE, "", EmptyStr, EmptyStr, BadPayload)

NoLoc ==
    [customer |-> "none", org |-> "none",
     settings |-> [PointsPerDollar |-> Frac(0, 1), StampsPerVisit |-> 0,
                   RewardThresholds |-> <<>>],
     pointsEarned |-> 0, stampsEarned |-> 0, base |-> 0]

\* models.ProcessingResult as ProcessEvent, processPOSTransaction and
\* processLoyaltyAction initialise it
NewResult ==
    [returned |-> "result", Success |-> FALSE, Error |-> "", PointsEarned |-> 0,
     StampsEarned |-> 0, RewardsTriggered |-> <<>>, Actions |-> <<>>]

\* ProcessEvent's (nil, err) return
ErrorReturn == [NewResult EXCEPT !.returned = "error",
                                 !.Error = "failed to unmarshal event"]

NoResult == [NewResult EXCEPT !.returned = "none"]

Failed(res, reason) == [res EXCEPT !.Error = reason]

\* outcomes of a directory lookup and of an HTTP call to the ledger
LookupOutcomes == {"ok", "notfound", "error"}
NetOutcomes == {"ok", "unreachable", "timeout"}

CreatePointsTransfer(orgID, customerID, points, reference) ==
    [wellformed |-> TRUE, OrgID |-> orgID, CustomerID |-> customerID,
     TransactionType |-> PointsAccrual, Amount |-> points % UintMod,
     Code |-> 1, Reference |-> reference]

CreateStampsTransfer(orgID, customerID, stamps, reference) ==
    [wellformed |-> TRUE, OrgID |-> orgID, CustomerID |-> customerID,
     TransactionType |-> StampsAccrual, Amount |-> stamps % UintMod,
     Code |-> 2, Reference |-> reference]

\* LedgerClient.createTransfer: the request reaches the ledger unless the
\* connection fails; a timeout loses the response of a request that was served
createTransfer(req, net) ==
    /\ IF net = "unreachable"
       THEN UNCHANGED <<accounts, transfers, last>>
       ELSE ServeCreateTransfer(req)
    /\ calls' = Append(calls, [req |-> req,
                               err |-> (net # "ok" \/ last'.status # 201)])
    /\ UNCHANGED created

NoLedgerCall == UNCHANGED <<accounts, transfers, created, last, calls>>

\* variant: a quantity is posted whenever it is not zero
PointsToPost_nonzero(pointsEarned) == pointsEarned # 0

\* the guards of the two transfers of processPOSTransaction
PointsToPost(pointsEarned) == pointsEarned > 0

StampsToPost(stampsEarned) == stampsEarned > 0

PosReference(transaction) == <<"pos_transaction_">> \o transaction.TransactionID

\* variant: an award is posted whenever its quantity is not zero
AwardToPost_nonzero(quantity) == quantity # 0

\* the guard of the transfer of a manual_points or bonus_stamps action
AwardToPost(quantity) == quantity > 0

\* ProcessEvent up to the first outbound call
Fetch(e) ==
    /\ pc = "idle"
    /\ processed < MaxEvents
    /\ ev' = e
    /\ loc' = [NoLoc EXCEPT !.base = Len(transfers)]
    /\ calls' = <<>>
    /\ UNCHANGED <<accounts, transfers, created, last, processed>>
    /\ IF ~e.wellformed
       THEN result' = ErrorReturn /\ pc' = "done"
       ELSE IF e.EventType = "pos.transaction"
       THEN IF e.Payload.kind # "pos"
            THEN /\ result' = Failed(NewResult, "failed to unmarshal transaction data")
                 /\ pc' = "done"
            ELSE result' = NewResult /\ pc' = "customer"
       ELSE IF e.EventType = "loyalty.action"
       THEN IF e.Payload.kind # "action"
            THEN /\ result' = Failed(NewResult, "failed to unmarshal loyalty action data")
                 /\ pc' = "done"
            ELSE IF e.Payload.ActionType = "manual_points"
            THEN IF AwardToPost(e.Payload.Points)
                 THEN result' = NewResult /\ pc' = "action"
                 ELSE result' = [NewResult EXCEPT !.Success = TRUE] /\ pc' = "done"
            ELSE IF e.Payload.ActionType = "bonus_stamps"
            THEN IF AwardToPost(e.Payload.Stamps)
                 THEN result' = NewResult /\ pc' = "action"
                 ELSE result' = [NewResult EXCEPT !.Success = TRUE] /\ pc' = "done"
            ELSE /\ result' = Failed(NewResult, "unknown loyalty action type")
                 /\ pc' = "done"
       ELSE /\ result' = Failed(NewResult, "unknown event type")
            /\ pc' = "done"

\* variant: the error of the customer lookup is dropped
GetCustomer_ignore(outcome) ==
    /\ pc = "customer"
    /\ loc' = [loc EXCEPT !.customer = outcome]
    /\ pc' = "org"
    /\ UNCHANGED result
    /\ NoLedgerCall
    /\ UNCHANGED <<ev, processed>>

\* processPOSTransaction: membershipClient.GetCustomer
GetCustomer(outcome) ==
    /\ pc = "customer"
    /\ loc' = [loc EXCEPT !.customer = outcome]
    /\ IF outcome # "ok"
       THEN result' = Failed(result, "failed to get customer") /\ pc' = "done"
       ELSE pc' = "org" /\ UNCHANGED result
    /\ NoLedgerCall
    /\ UNCHANGED <<ev, processed>>

\* processPOSTransaction: membershipClient.GetOrganization, then the earned
\* quantities
GetOrganization(outcome, settings) ==
    /\ pc = "org"
    /\ IF outcome # "ok"
       THEN /\ loc' = [loc EXCEPT !.org = outcome]
            /\ result' = Failed(result, "failed to get organization")
            /\ pc' = "done"
       ELSE /\ loc' = [loc EXCEPT
                          !.org = outcome,
                          !.settings = settings,
                          !.pointsEarned = calculatePoints(ev.Payload.Amount,
                                                           settings.PointsPerDollar),
                          !.stampsEarned = settings.StampsPerVisit]
            /\ pc' = "points"
            /\ UNCHANGED result
    /\ NoLedgerCall
    /\ UNCHANGED <<ev, processed>>

\* variant: the stamps transfer is attempted after a failed points transfer
PostPoints_continue(net) ==
    /\ pc = "points"
    /\ IF PointsToPost(loc.pointsEarned)
       THEN /\ createTransfer(CreatePointsTransfer(ev.OrgID, ev.CustomerID,
                                  loc.pointsEarned, PosReference(ev.Payload)), net)
            /\ IF calls'[Len(calls')].err
               THEN /\ result' = Failed(result, "failed to create points transfer")
                    /\ pc' = "stamps"
               ELSE /\ result' = [result EXCEPT
                                     !.PointsEarned = loc.pointsEarned,
                                     !.Actions = Append(@, <<"awarded",
                                         ToString(loc.pointsEarned), "points">>)]
                    /\ pc' = "stamps"
       ELSE /\ net = "ok"
            /\ NoLedgerCall
            /\ pc' = "stamps"
            /\ UNCHANGED result
    /\ UNCHANGED <<ev, loc, processed>>

\* processPOSTransaction: the points transfer
PostPoints(net) ==
    /\ pc = "points"
    /\ IF PointsToPost(loc.pointsEarned)
       THEN /\ createTransfer(CreatePointsTransfer(ev.OrgID, ev.CustomerID,
                                  loc.pointsEarned, PosReference(ev.Payload)), net)
            /\ IF calls'[Len(calls')].err
               THEN /\ result' = Failed(result, "failed to create points transfer")
                    /\ pc' = "done"
               ELSE /\ result' = [result EXCEPT
                                     !.PointsEarned = loc.pointsEarned,
                                     !.Actions = Append(@, <<"awarded",
                                         ToString(loc.pointsEarned), "points">>)]
                    /\ pc' = "stamps"
       ELSE /\ net = "ok"
            /\ NoLedgerCall
            /\ pc' = "stamps"
            /\ UNCHANGED result
    /\ UNCHANGED <<ev, loc, processed>>

\* processPOSTransaction: the stamps transfer
PostStamps(net) ==
    /\ pc = "stamps"
    /\ IF StampsToPost(loc.stampsEarned)
       THEN /\ createTransfer(CreateStampsTransfer(ev.OrgID, ev.CustomerID,
                                  loc.stampsEarned, PosReference(ev.Payload)), net)
            /\ IF calls'[Len(calls')].err
               THEN /\ result' = Failed(result, "failed to create stamps transfer")
                    /\ pc' = "done"
               ELSE /\ result' = [result EXCEPT
                                     !.StampsEarned = loc.stampsEarned,
                                     !.Actions = Append(@, <<"awarded",
                                         ToString(loc.stampsEarned), "stamps">>)]
                    /\ pc' = "rewards"
       ELSE /\ net = "ok"
            /\ NoLedgerCall
            /\ pc' = "rewards"
            /\ UNCHANGED result
    /\ UNCHANGED <<ev, loc, processed>>

\* processPOSTransaction: the reward thresholds, then success
CheckRewards ==
    /\ pc = "rewards"
    /\ result' = [result EXCEPT
                     !.RewardsTriggered = checkRewardThresholds(
                         loc.settings.RewardThresholds, loc.pointsEarned,
                         loc.stampsEarned),
                     !.Success = TRUE]
    /\ pc' = "done"
    /\ NoLedgerCall
    /\ UNCHANGED <<ev, loc, processed>>

\* processLoyaltyAction: the single transfer of a manual_points or
\* bonus_stamps action with a positive quantity
PostAction(net) ==
    /\ pc = "action"
    /\ LET action == ev.Payload
           isPoints == action.ActionType = "manual_points"
       IN  /\ createTransfer(
                  IF isPoints
                  THEN CreatePointsTransfer(ev.OrgID, ev.CustomerID, action.Points,
                                            action.Reference)
                  ELSE CreateStampsTransfer(ev.OrgID, ev.CustomerID, action.Stamps,
                                            action.Reference),
                  net)
           /\ IF calls'[Len(calls')].err
              THEN result' = Failed(result,
                                    IF isPoints
                                    THEN "failed to create points transfer"
                                    ELSE "failed to create stamps transfer")
              ELSE IF isPoints
              THEN result' = [result EXCEPT
                                 !.PointsEarned = action.Points,
                                 !.Actions = Append(@, <<"manual award:",
                                     ToString(action.Points), "points">>),
                                 !.Success = TRUE]
              ELSE result' = [result EXCEPT
                                 !.StampsEarned = action.Stamps,
                                 !.Actions = Append(@, <<"bonus stamps:",
                                     ToString(action.Stamps)>>),
                                 !.Success = TRUE]
    /\ pc' = "done"
    /\ UNCHANGED <<ev, loc, processed>>

\* main: the message is committed after the processing attempt
Commit ==
    /\ pc = "done"
    /\ pc' = "idle"
    /\ processed' = processed + 1
    /\ UNCHANGED <<accounts, transfers, created, last, ev, loc, result, calls>>

StreamInit ==
    /\ pc = "idle"
    /\ ev = NoEvent
    /\ loc = NoLoc
    /\ result = NoResult
    /\ calls = <<>>
    /\ processed = 0

\* ------------------------------------------------- the three consumer loops
\* stream processor (part_018), RFM processor and tier processor (part_011):
\* one reader of a consumer group over the tenant's log.
\* failed[m]: the last processing attempt of message m ended in a failure
\* cancelled: whether the shutdown signal has cancelled the context of the
\*            running process, and the message in hand when it did
VARIABLES service, klog, committed, position, cpc, msg, fetches, handled,
          commits, runs, failed, cancelled

consumerVars == <<service, klog, committed, position, cpc, msg, fetches,
                  handled, commits, runs, failed, cancelled>>

MaxMessages == 2
MaxRuns == 2

Services == {"accrual", "rfm", "tier"}
NoService == "none"
NoOffset == 0
NoMessage == 0

\* topics, as the sequence of their dot-separated segments
TopicPos == <<"orgA", "pos", "transaction">>
TopicAction == <<"orgA", "loyalty", "action">>
TopicUpdated == <<"orgA", "customer", "updated">>
TopicOther == <<"orgA", "points", "earned">>
Topics == {TopicPos, TopicAction, TopicUpdated, TopicOther}

StreamTopics ==
    {<<"*", "pos", "transaction">>, <<"*", "loyalty", "action">>,
     <<"*", "customer", "updated">>}

\* a pattern with a wildcard matches segment by segment, any other pattern
\* by equality
shouldProcessTopic(topic, patterns) ==
    \E pattern \in patterns :
        IF \E i \in 1..Len(pattern) : pattern[i] = "*"
        THEN /\ Len(pattern) = Len(topic)
             /\ \A i \in 1..Len(pattern) :
                    pattern[i] = "*" \/ pattern[i] = topic[i]
        ELSE topic = pattern

\* strings.Contains(topic, ".pos.transaction") or ".loyalty.action": the two
\* segments follow one another after some first segment
shouldProcessMessage(topic) ==
    \E pattern \in {<<"pos", "transaction">>, <<"loyalty", "action">>} :
        \E i \in 2..(Len(topic) - 1) :
            topic[i] = pattern[1] /\ topic[i + 1] = pattern[2]

ShouldProcess(s, topic) ==
    IF s = "accrual" THEN shouldProcessTopic(topic, StreamTopics)
    ELSE shouldProcessMessage(topic)

\* how one processing attempt can end in each loop: ProcessEvent returns a
\* result (Success or not) or an error; the two processMessage functions
\* return nil or an error; the RFM one dereferences the nil record of a
\* customer without activity and the process dies
ProcessOutcomes(s) ==
    CASE s = "accrual" -> {"success", "failed", "error"}
      [] s = "rfm" -> {"ok", "error", "panic"}
      [] OTHER -> {"ok", "error"}

CommitOutcomes == {"ok", "error"}

NotCancelled == [done |-> FALSE, during |-> NoMessage]

\* a producer appends a message to the tenant's log
WriteMessages(topic) ==
    /\ Len(klog) < MaxMessages
    /\ klog' = Append(klog, topic)
    /\ UNCHANGED <<service, committed, position, cpc, msg, fetches, handled,
                   commits, runs, failed,
                   cancelled>>

\* main() of one of the three services: a reader of the consumer group
\* resumes at the group's committed offset, or at the end of the log when
\* the group has none (StartOffset: kafka.LastOffset)
StartService(s) ==
    /\ cpc = "down"
    /\ runs < MaxRuns
    /\ service \in {NoService, s}
    /\ service' = s
    /\ runs' = runs + 1
    /\ position' = IF committed = NoOffset THEN Len(klog) + 1 ELSE committed
    /\ cpc' = "fetch"
    /\ msg' = NoMessage
    /\ cancelled' = NotCancelled
    /\ UNCHANGED <<klog, committed, fetches, handled, commits, failed>>

\* reader.FetchMessage and the topic filter
FetchMessage ==
    /\ cpc = "fetch"
    /\ ~cancelled.done
    /\ position <= Len(klog)
    /\ msg' = position
    /\ position' = position + 1
    /\ fetches' = [fetches EXCEPT ![position] = @ + 1]
    /\ cpc' = IF ShouldProcess(service, klog[position]) THEN "process"
              ELSE "commit"
    /\ UNCHANGED <<service, klog, committed, handled, commits, runs, failed,
                   cancelled>>

\* the message is handed to the processor; whatever it returns is only
\* logged, a panic ends the process
ProcessMessage(outcome) ==
    /\ cpc = "process"
    /\ outcome \in ProcessOutcomes(service)
    /\ handled' = [handled EXCEPT ![msg] = @ + 1]
    /\ failed' = [failed EXCEPT ![msg] = outcome \notin {"success", "ok"}]
    /\ cpc' = IF outcome = "panic" THEN "down" ELSE "commit"
    /\ UNCHANGED <<service, klog, committed, position, msg, fetches, commits,
                   runs,
                   cancelled>>

\* reader.CommitMessages: an error is only logged
CommitMessages(outcome) ==
    /\ cpc = "commit"
    /\ IF outcome = "ok"
       THEN /\ commits' = [commits EXCEPT ![msg] = @ + 1]
            /\ committed' = msg + 1
       ELSE UNCHANGED <<commits, committed>>
    /\ cpc' = "fetch"
    /\ UNCHANGED <<service, klog, position, msg, fetches, handled, runs,
                   failed,
                   cancelled>>

\* the signal arrives while a message is in hand: the goroutine of main
\* calls cancel(); the processing and the commit go on with the cancelled
\* context
Signal ==
    /\ cpc \in {"process", "commit"}
    /\ ~cancelled.done
    /\ cancelled' = [done |-> TRUE, during |-> msg]
    /\ UNCHANGED <<service, klog, committed, position, cpc, msg, fetches,
                   handled, commits, runs, failed>>

\* ctx.Done() at the top of the loop (the signal has arrived by then): the
\* loop closes the reader and returns
Shutdown ==
    /\ cpc = "fetch"
    /\ cpc' = "down"
    /\ cancelled' = [cancelled EXCEPT !.done = TRUE]
    /\ UNCHANGED <<service, klog, committed, position, msg, fetches, handled,
                   commits, runs, failed>>

ConsumerInit ==
    /\ service = NoService
    /\ klog = <<>>
    /\ committed = NoOffset
    /\ position = 1
    /\ cpc = "down"
    /\ msg = NoMessage
    /\ fetches = [m \in 1..MaxMessages |-> 0]
    /\ handled = [m \in 1..MaxMessages |-> 0]
    /\ commits = [m \in 1..MaxMessages |-> 0]
    /\ runs = 0
    /\ failed = [m \in 1..MaxMessages |-> FALSE]
    /\ cancelled = NotCancelled

\* ------------------------------------------------ the mock event router
\* MockKafkaServer (part_001) and MockKafkaClient (part_009). A topic or a
\* pattern is the sequence of the pieces of its text, dots included, so that
\* a suffix of the text is a suffix of the sequence.
VARIABLES consumers, conns, nconn, pubs, npub, wire, eventChan, got, resp

routerVars == <<consumers, conns, nconn, pubs, npub, wire, eventChan, got,
                resp>>

MaxConns == 2
MaxPublishes == 2
ChanCap == 100

RTopicPos == <<"orgA", ".", "pos", ".", "trans", "action">>
RTopicAction == <<"orgA", ".", "loyalty", ".", "action">>
RTopics == {RTopicPos, RTopicAction}

PatternAll == <<"*">>
PatternPos == <<"*", ".", "pos", ".", "trans", "action">>
Patterns == {PatternAll, PatternPos, RTopicAction}

Garbage == 0
NoConn == 0

topicMatches(pattern, topic) ==
    IF pattern = <<"*">> THEN TRUE
    ELSE IF Len(pattern) > 0 /\ pattern[1] = "*"
    THEN LET suffix == Tail(pattern)
         IN  /\ Len(topic) >= Len(suffix)
             /\ SubSeq(topic, Len(topic) - Len(suffix) + 1, Len(topic))
                    = suffix
    ELSE pattern = topic

\* the orders in which a range over the consumers map can visit a set of keys
Perms(S) ==
    {f \in [1..Cardinality(S) -> S] :
        \A i, j \in 1..Cardinality(S) : f[i] = f[j] => i = j}

RECURSIVE Flatten(_, _)
Flatten(order, i) ==
    IF i > Len(order) THEN <<>>
    ELSE consumers[order[i]] \o Flatten(order, i + 1)

Registered == UNION {{consumers[p][i] : i \in 1..Len(consumers[p])} :
                        p \in Patterns}

Publishing == {p \in 1..npub : pubs[p].state = "publishing"}

NoPub == [state |-> "none", topic |-> <<>>, todo |-> <<>>, writing |-> NoConn,
          targets |-> {}, delivered |-> {}]

NoConnection == [pattern |-> <<>>, state |-> "none"]

\* handleConsumer up to the registration: the connection is appended to the
\* slice of its topic parameter under the write lock
handleConsumer(topic) ==
    /\ nconn < MaxConns
    /\ Publishing = {}
    /\ IF topic = <<>>
       THEN /\ resp' = "400"
            /\ UNCHANGED <<consumers, conns, nconn>>
       ELSE /\ nconn' = nconn + 1
            /\ consumers' = [consumers EXCEPT ![topic] = Append(@, nconn + 1)]
            /\ conns' = [conns EXCEPT ![nconn + 1] =
                            [pattern |-> topic, state |-> "open"]]
            /\ UNCHANGED resp
    /\ UNCHANGED <<pubs, npub, wire, eventChan, got>>

\* MockKafkaClient.Close: the connection is closed, readMessages returns
Close(c) ==
    /\ c \in 1..nconn
    /\ conns[c].state = "open"
    /\ conns' = [conns EXCEPT ![c].state = "closed"]
    /\ UNCHANGED <<consumers, nconn, pubs, npub, wire, eventChan, got, resp>>

\* the subscriber stops reading its connection: once the buffers are full
\* a WriteMessage on it does not return (no write deadline is set)
Stall(c) ==
    /\ c \in 1..nconn
    /\ conns[c].state = "open"
    /\ conns' = [conns EXCEPT ![c].state = "stalled"]
    /\ UNCHANGED <<consumers, nconn, pubs, npub, wire, eventChan, got, resp>>

\* handleConsumer after its read loop ended: the connection is removed
\* from its slice under the write lock
RemoveConsumer(c) ==
    /\ c \in Registered
    /\ conns[c].state \in {"closed", "broken"}
    /\ Publishing = {}
    /\ consumers' = [consumers EXCEPT ![conns[c].pattern] =
                        SelectSeq(@, LAMBDA x : x # c)]
    /\ UNCHANGED <<conns, nconn, pubs, npub, wire, eventChan, got, resp>>

\* handlePublish: a request that is not a POST, has no topic or no JSON
\* body is refused; otherwise publishEvent starts under the read lock and
\* ranges over the map
handlePublish(topic, valid) ==
    /\ npub < MaxPublishes
    /\ IF ~valid \/ topic = <<>>
       THEN /\ resp' = "400"
            /\ UNCHANGED <<pubs, npub>>
       ELSE \E order \in Perms({p \in Patterns :
                                   /\ consumers[p] # <<>>
                                   /\ topicMatches(p, topic)}) :
                LET todo == Flatten(order, 1)
                IN  /\ npub' = npub + 1
                    /\ pubs' = [pubs EXCEPT ![npub + 1] =
                           [state |-> IF todo = <<>> THEN "done"
                                      ELSE "publishing",
                            topic |-> topic, todo |-> todo,
                            writing |-> NoConn, targets |-> Registered,
                            delivered |-> {}]]
                    /\ resp' = IF todo = <<>> THEN "published" ELSE resp
    /\ UNCHANGED <<consumers, conns, nconn, wire, eventChan, got>>

RaceOutcomes == {"serialized", "panic", "corrupt"}

\* publishEvent calls conn.WriteMessage on the next connection. The read
\* lock admits several publishers: a write that starts while another
\* publisher is writing on the same connection is a concurrent write, which
\* the connection does not support
BeginWrite(p, race) ==
    /\ p \in Publishing
    /\ pubs[p].writing = NoConn
    /\ LET c == Head(pubs[p].todo)
           raced == \E q \in Publishing : q # p /\ pubs[q].writing = c
       IN  IF ~raced \/ race = "serialized"
           THEN /\ pubs' = [pubs EXCEPT ![p].writing = c]
                /\ UNCHANGED <<wire, conns, resp>>
           ELSE IF race = "panic"
           THEN /\ pubs' = [pubs EXCEPT ![p].state = "aborted",
                                        ![p].todo = <<>>]
                /\ UNCHANGED <<wire, conns, resp>>
           ELSE /\ pubs' = [pubs EXCEPT ![p].writing = c]
                /\ wire' = [wire EXCEPT ![c] = Append(@, Garbage)]
                /\ conns' = [conns EXCEPT ![c].state = "broken"]
                /\ UNCHANGED resp
    /\ UNCHANGED <<consumers, nconn, npub, eventChan, got>>

\* conn.WriteMessage returns: the frame is on the connection, or the error
\* of a connection that is no longer open is logged; after the last
\* connection publishEvent returns and the request is answered
EndWrite(p) ==
    /\ p \in Publishing
    /\ pubs[p].writing # NoConn
    /\ conns[pubs[p].writing].state # "stalled"
    /\ LET c == pubs[p].writing
           ok == conns[c].state = "open"
           rest == Tail(pubs[p].todo)
       IN  /\ wire' = IF ok THEN [wire EXCEPT ![c] = Append(@, p)] ELSE wire
           /\ pubs' = [pubs EXCEPT
                  ![p].writing = NoConn,
                  ![p].todo = rest,
                  ![p].delivered = IF ok THEN @ \cup {c} ELSE @,
                  ![p].state = IF rest = <<>> THEN "done" ELSE @]
           /\ resp' = IF rest = <<>> THEN "published" ELSE resp
    /\ UNCHANGED <<consumers, conns, nconn, npub, eventChan, got>>

\* readMessages: one frame is read and put on the channel; a read error
\* ends the goroutine
readMessages(c) ==
    /\ c \in 1..nconn
    /\ conns[c].state # "closed"
    /\ wire[c] # <<>>
    /\ IF Head(wire[c]) = Garbage
       THEN /\ conns' = [conns EXCEPT ![c].state = "closed"]
            /\ wire' = [wire EXCEPT ![c] = <<>>]
            /\ UNCHANGED eventChan
       ELSE /\ Len(eventChan[c]) < ChanCap
            /\ eventChan' = [eventChan EXCEPT ![c] = Append(@, Head(wire[c]))]
            /\ wire' = [wire EXCEPT ![c] = Tail(@)]
            /\ UNCHANGED conns
    /\ UNCHANGED <<consumers, nconn, pubs, npub, got, resp>>

\* ReadEvent: the head of the channel, or the error after five seconds
ReadEvent(c) ==
    /\ c \in 1..nconn
    /\ IF eventChan[c] # <<>>
       THEN /\ got' = [got EXCEPT ![c] = Append(@, Head(eventChan[c]))]
            /\ eventChan' = [eventChan EXCEPT ![c] = Tail(@)]
            /\ UNCHANGED resp
       ELSE /\ resp' = "timeout reading event"
            /\ UNCHANGED <<got, eventChan>>
    /\ UNCHANGED <<consumers, conns, nconn, pubs, npub, wire>>

RouterInit ==
    /\ consumers = [p \in Patterns |-> <<>>]
    /\ conns = [c \in 1..MaxConns |-> NoConnection]
    /\ nconn = 0
    /\ pubs = [p \in 1..MaxPublishes |-> NoPub]
    /\ npub = 0
    /\ wire = [c \in 1..MaxConns |-> <<>>]
    /\ eventChan = [c \in 1..MaxConns |-> <<>>]
    /\ got = [c \in 1..MaxConns |-> <<>>]
    /\ resp = ""

\* ------------------------------------------------------ the RFM processor
\* processMessage of the RFM processor (part_011:133-193) over the
\* customer_activities and rfm_scores collections of one organization.
\* Times are small integers; ZeroTime is the zero time.Time of a payload
\* without a timestamp.
VARIABLES activities, scores, rfmLast, rfmEvents

rfmVars == <<activities, scores, rfmLast, rfmEvents>>

MaxRfmEvents == 3
MaxTime == 2

ZeroTime == 0
Times == 1..MaxTime
Customers == {CustC, CustBC}

\* float64 sums of the amounts, kept in lowest terms
RECURSIVE GCD(_, _)
GCD(a, b) == IF b = 0 THEN a ELSE GCD(b, a % b)
Norm(x) ==
    LET s == IF x.d < 0 THEN -1 ELSE 1
        n == s * x.n
        d == s * x.d
        g == GCD(IF n < 0 THEN -n ELSE n, d)
    IN  Frac(n \div g, d \div g)
Add(x, y) == Norm(Frac(x.n * y.d + y.n * x.d, x.d * y.d))
Less(x, y) == x.n * y.d < y.n * x.d

AnalyticsAmounts == {Frac(50, 1), Frac(-21, 2)}

TxPayload(amount, ts) == [kind |-> "pos", Amount |-> amount, Timestamp |-> ts]
AnalyticsEvent(ok, type, cust, ts, payload) ==
    [wellformed |-> ok, EventType |-> type, OrgID |-> OrgA,
     CustomerID |-> cust, Timestamp |-> ts, Payload |-> payload]
AnalyticsEvents ==
    {AnalyticsEvent(TRUE, "pos.transaction", c, t, TxPayload(a, ts)) :
        c \in Customers, t \in Times, a \in AnalyticsAmounts,
        ts \in Times \cup {ZeroTime}}
    \cup {AnalyticsEvent(TRUE, "pos.transaction", CustC, 1, [kind |-> "bad"]),
          AnalyticsEvent(TRUE, "loyalty.action", CustC, 1, [kind |-> "action"]),
          AnalyticsEvent(FALSE, "", EmptyStr, ZeroTime, [kind |-> "bad"])}

StorageOutcomes == {"ok", "error"}

NoActivity ==
    [present |-> FALSE, FirstTransaction |-> ZeroTime,
     LastTransaction |-> ZeroTime, TotalTransactions |-> 0,
     TotalSpent |-> Frac(0, 1)]

NoScore ==
    [present |-> FALSE, LastTransaction |-> ZeroTime, TotalTransactions |-> 0,
     TotalSpent |-> Frac(0, 1)]

\* the record of the customer among the organization's activities, a nil
\* record when there is none, the error of the storage otherwise
getExistingActivity(acts, cust, read) ==
    IF read = "error" THEN [err |-> TRUE, found |-> FALSE, rec |-> NoActivity]
    ELSE [err |-> FALSE, found |-> acts[cust].present, rec |-> acts[cust]]

\* the upsert: $set of last_transaction and of the totals, $setOnInsert of
\* first_transaction
UpdateCustomerActivity(acts, cust, activity) ==
    IF acts[cust].present
    THEN [acts EXCEPT ![cust].LastTransaction = activity.LastTransaction,
                      ![cust].TotalTransactions = activity.TotalTransactions,
                      ![cust].TotalSpent = activity.TotalSpent]
    ELSE [acts EXCEPT ![cust] = [activity EXCEPT !.present = TRUE]]

\* the activity processMessage builds from the existing record and the
\* transaction
BuildActivity(existing, tx) ==
    [present |-> TRUE,
     FirstTransaction |-> IF tx.Timestamp < existing.FirstTransaction
                          THEN tx.Timestamp ELSE existing.FirstTransaction,
     LastTransaction |-> tx.Timestamp,
     TotalTransactions |-> existing.TotalTransactions + 1,
     TotalSpent |-> Add(existing.TotalSpent, tx.Amount)]

\* RFMCalculator.ProcessCustomerTransaction saves the score of the activity
SaveRFMScore(scs, cust, activity) ==
    [scs EXCEPT ![cust] =
        [present |-> TRUE, LastTransaction |-> activity.LastTransaction,
         TotalTransactions |-> activity.TotalTransactions,
         TotalSpent |-> activity.TotalSpent]]

RfmProcessMessage(e, read, write, score) ==
    /\ rfmEvents < MaxRfmEvents
    /\ rfmEvents' = rfmEvents + 1
    /\ IF ~e.wellformed
       THEN rfmLast' = "error" /\ UNCHANGED <<activities, scores>>
       ELSE IF e.EventType # "pos.transaction"
       THEN rfmLast' = "ok" /\ UNCHANGED <<activities, scores>>
       ELSE IF e.Payload.kind # "pos"
       THEN rfmLast' = "error" /\ UNCHANGED <<activities, scores>>
       ELSE
         LET tx == e.Payload
             found == getExistingActivity(activities, e.CustomerID, read)
             existing ==
                 IF found.err
                 THEN [NoActivity EXCEPT !.FirstTransaction = tx.Timestamp,
                                         !.LastTransaction = tx.Timestamp]
                 ELSE found.rec
             activity == BuildActivity(existing, tx)
         IN  IF ~found.err /\ ~found.found
             THEN rfmLast' = "panic" /\ UNCHANGED <<activities, scores>>
             ELSE IF write = "error"
             THEN rfmLast' = "error" /\ UNCHANGED <<activities, scores>>
             ELSE /\ activities' =
                        UpdateCustomerActivity(activities, e.CustomerID,
                                               activity)
                  /\ IF score = "error"
                     THEN rfmLast' = "error" /\ UNCHANGED scores
                     ELSE /\ rfmLast' = "ok"
                          /\ scores' = SaveRFMScore(scores, e.CustomerID,
                                                    activity)

RfmInit ==
    /\ activities = [c \in Customers |-> NoActivity]
    /\ scores = [c \in Customers |-> NoScore]
    /\ rfmLast = "none"
    /\ rfmEvents = 0

\* ----------------------------------------------------- the tier processor
\* TierCalculator (tiers/calculator.go) and processMessage of the tier
\* processor (part_011:342-408) over the customer_tiers, tier_configs and
\* tier_upgrades collections of one organization and one customer. A time is
\* a month number, MonthsPerYear months to the year.
VARIABLES tiers, tierConfig, upgrades, clock, tierLast, tierEvents

tierVars == <<tiers, tierConfig, upgrades, clock, tierLast, tierEvents>>

MaxTierEvents == 2

\* the months of the model: January and February of one year, January of
\* the next
MonthsPerYear == 12
TierTimes == {MonthsPerYear, MonthsPerYear + 1, MonthsPerYear + MonthsPerYear}
yearStart(now) == now - (now % MonthsPerYear)
monthStart(now) == now

LessEq(x, y) == ~Less(y, x)
Div(x, y) == Norm(Frac(x.n * y.d, x.d * y.n))
One == Frac(1, 1)
Zero == Frac(0, 1)

TierRule(name, level, spentLife, spentYear, visitsLife, visitsYear) ==
    [Name |-> name, Level |-> level, MinSpentLifetime |-> Frac(spentLife, 1),
     MinSpentYear |-> Frac(spentYear, 1), MinVisitsLifetime |-> visitsLife,
     MinVisitsYear |-> visitsYear]

GetDefaultTierRules ==
    <<TierRule("Bronze", 1, 0, 0, 0, 0),
      TierRule("Silver", 2, 250, 100, 5, 3),
      TierRule("Gold", 3, 750, 300, 15, 8),
      TierRule("Platinum", 4, 2000, 800, 30, 15),
      TierRule("Diamond", 5, 5000, 2000, 50, 25)>>

Reverse(s) == [i \in 1..Len(s) |-> s[Len(s) + 1 - i]]

\* rule lists an organization can have stored: the defaults in another
\* order, and a list of its own whose lowest tier is not "Bronze"
CustomRules ==
    <<TierRule("Member", 1, 0, 0, 0, 0), TierRule("Club", 2, 50, 50, 1, 1)>>
TierConfigs == {Reverse(GetDefaultTierRules), CustomRules}
NoConfig == <<>>

\* sort.Slice by descending, respectively ascending, level (the levels of a
\* list are distinct)
RECURSIVE SortByLevel(_, _)
SortByLevel(rules, descending) ==
    IF rules = <<>> THEN <<>>
    ELSE LET first == CHOOSE i \in 1..Len(rules) :
                          \A j \in 1..Len(rules) :
                              IF descending
                              THEN rules[i].Level >= rules[j].Level
                              ELSE rules[i].Level <= rules[j].Level
             rest == [k \in 1..(Len(rules) - 1) |->
                         IF k < first THEN rules[k] ELSE rules[k + 1]]
         IN  <<rules[first]>> \o SortByLevel(rest, descending)

\* variant: strict comparisons
meetsRequirements_strict(metrics, rule) ==
    /\ Less(rule.MinSpentLifetime, metrics.TotalSpent)
    /\ Less(rule.MinSpentYear, metrics.SpentThisYear)
    /\ metrics.TotalVisits > rule.MinVisitsLifetime
    /\ metrics.VisitsThisYear > rule.MinVisitsYear

meetsRequirements(metrics, rule) ==
    /\ LessEq(rule.MinSpentLifetime, metrics.TotalSpent)
    /\ LessEq(rule.MinSpentYear, metrics.SpentThisYear)
    /\ metrics.TotalVisits >= rule.MinVisitsLifetime
    /\ metrics.VisitsThisYear >= rule.MinVisitsYear

calculateTier(metrics, rules) ==
    LET sorted == SortByLevel(rules, TRUE)
        met == {i \in 1..Len(sorted) : meetsRequirements(metrics, sorted[i])}
    IN  IF met = {} THEN sorted[Len(sorted)]
        ELSE sorted[CHOOSE i \in met : \A j \in met : i <= j]

\* the next rule of the default list above the tier's level, and the
\* progress towards it
calculateNextTierProgress(currentTier, metrics) ==
    LET rules == SortByLevel(GetDefaultTierRules, FALSE)
        above == {i \in 1..Len(rules) : rules[i].Level > currentTier.Level}
    IN  IF above = {} THEN [name |-> "", progress |-> One]
        ELSE LET nextTier == rules[CHOOSE i \in above : \A j \in above : i <= j]
                 spentProgress ==
                     IF nextTier.MinSpentYear.n > 0
                     THEN Div(metrics.SpentThisYear, nextTier.MinSpentYear)
                     ELSE Zero
                 visitsProgress ==
                     IF nextTier.MinVisitsYear > 0
                     THEN Norm(Frac(metrics.VisitsThisYear,
                                    nextTier.MinVisitsYear))
                     ELSE Zero
                 progress == Div(Add(spentProgress, visitsProgress), Frac(2, 1))
             IN  [name |-> nextTier.Name,
                  progress |-> IF Less(One, progress) THEN One ELSE progress]

NoTier ==
    [present |-> FALSE, CurrentTier |-> "", PreviousTier |-> "",
     TierSince |-> ZeroTime, NextTier |-> "", ProgressToNext |-> Zero,
     TotalSpent |-> Zero, TotalVisits |-> 0, SpentThisYear |-> Zero,
     VisitsThisYear |-> 0, SpentThisMonth |-> Zero, VisitsThisMonth |-> 0,
     LastTransaction |-> ZeroTime]

\* the record used when GetCustomerTier returns an error
NewCustomerTier(now) ==
    [NoTier EXCEPT !.CurrentTier = "Bronze", !.TierSince = now]

updateCustomerTier(current, newTier, metrics, now) ==
    LET changed == current.CurrentTier # newTier.Name
        next == calculateNextTierProgress(newTier, metrics)
    IN  [present |-> TRUE,
         CurrentTier |-> newTier.Name,
         PreviousTier |-> IF changed THEN current.CurrentTier
                          ELSE current.PreviousTier,
         TierSince |-> IF changed THEN now ELSE current.TierSince,
         NextTier |-> next.name,
         ProgressToNext |-> next.progress,
         TotalSpent |-> metrics.TotalSpent,
         TotalVisits |-> metrics.TotalVisits,
         SpentThisYear |-> metrics.SpentThisYear,
         VisitsThisYear |-> metrics.VisitsThisYear,
         SpentThisMonth |-> metrics.SpentThisMonth,
         VisitsThisMonth |-> metrics.VisitsThisMonth,
         LastTransaction |-> metrics.LastTransaction]

Upgraded(updated) ==
    updated.CurrentTier # updated.PreviousTier /\ updated.PreviousTier # ""

TierUpgrade(updated, metrics) ==
    [FromTier |-> updated.PreviousTier, ToTier |-> updated.CurrentTier,
     TriggerValue |-> metrics.TransactionAmount]

ConfigOutcomes == {"ok", "error", "down"}

\* GetTierConfig, and the default rules with their save when it fails
RulesFor(cfg) ==
    IF cfg = "ok" /\ tierConfig # NoConfig THEN tierConfig
    ELSE GetDefaultTierRules

ProcessCustomerMetrics(metrics, cfg, read, save) ==
    LET rules == RulesFor(cfg)
        currentTier == IF read = "error" \/ ~tiers.present
                       THEN NewCustomerTier(clock) ELSE tiers
        newTier == calculateTier(metrics, rules)
        updated == updateCustomerTier(currentTier, newTier, metrics, clock)
        evaluated(emit) ==
            [outcome |-> IF save = "ok" THEN "ok" ELSE "error",
             metrics |-> metrics, rules |-> rules, emitted |-> emit]
    IN  /\ tierConfig' = IF (cfg = "ok" /\ tierConfig # NoConfig) \/ cfg = "down"
                         THEN tierConfig ELSE GetDefaultTierRules
        /\ tiers' = IF save = "ok" THEN updated ELSE tiers
        /\ IF save = "ok" /\ Upgraded(updated)
           THEN \E saveUpgrade \in StorageOutcomes :
                    IF saveUpgrade = "ok"
                    THEN /\ upgrades' = Append(upgrades,
                                               TierUpgrade(updated, metrics))
                         /\ tierLast' = evaluated(TRUE)
                    ELSE /\ UNCHANGED upgrades
                         /\ tierLast' = evaluated(FALSE)
           ELSE /\ UNCHANGED upgrades
                /\ tierLast' = evaluated(FALSE)

Metrics(spent, visits, spentYear, visitsYear, spentMonth, visitsMonth, lastTransaction, amount) ==
    [TotalSpent |-> spent, TotalVisits |-> visits, SpentThisYear |-> spentYear,
     VisitsThisYear |-> visitsYear, SpentThisMonth |-> spentMonth,
     VisitsThisMonth |-> visitsMonth, LastTransaction |-> lastTransaction,
     TransactionAmount |-> amount]

NoMetrics == Metrics(Zero, 0, Zero, 0, Zero, 0, ZeroTime, Zero)

\* metrics handed to the calculator directly, as its callers outside the
\* tier processor do
MetricsInputs(now) ==
    {Metrics(Frac(250, 1), 5, Frac(100, 1), 3, Frac(50, 1), 1, now, Frac(50, 1)),
     Metrics(Frac(499, 2), 5, Frac(100, 1), 3, Frac(50, 1), 1, now, Frac(50, 1)),
     Metrics(Frac(750, 1), 15, Frac(300, 1), 8, Frac(50, 1), 1, now,
             Frac(50, 1)),
     Metrics(Frac(-50, 1), 1, Frac(-50, 1), 1, Frac(-50, 1), 1, now,
             Frac(-50, 1))}

\* the events of the customer published at a time: the payload of a
\* transaction carries that time, or no timestamp
TierEvents(now) ==
    {AnalyticsEvent(TRUE, "pos.transaction", CustC, now, TxPayload(a, ts)) :
        a \in AnalyticsAmounts, ts \in {now, ZeroTime}}
    \cup {AnalyticsEvent(TRUE, "pos.transaction", CustC, now,
                         [kind |-> "bad"]),
          AnalyticsEvent(TRUE, "loyalty.action", CustC, now,
                         [kind |-> "action"]),
          AnalyticsEvent(FALSE, "", EmptyStr, ZeroTime, [kind |-> "bad"])}

NotEvaluated(outcome) ==
    [outcome |-> outcome, metrics |-> NoMetrics, rules |-> <<>>,
     emitted |-> FALSE]

\* the metrics processMessage builds from the existing record and the
\* transaction
BuildMetrics(existingTier, tx, now) ==
    LET newYear == existingTier.LastTransaction < yearStart(now)
        newMonth == existingTier.LastTransaction < monthStart(now)
    IN  Metrics(Add(existingTier.TotalSpent, tx.Amount),
                existingTier.TotalVisits + 1,
                IF newYear THEN tx.Amount
                ELSE Add(existingTier.SpentThisYear, tx.Amount),
                IF newYear THEN 1 ELSE existingTier.VisitsThisYear + 1,
                IF newMonth THEN tx.Amount
                ELSE Add(existingTier.SpentThisMonth, tx.Amount),
                IF newMonth THEN 1 ELSE existingTier.VisitsThisMonth + 1,
                tx.Timestamp, tx.Amount)

TierProcessMessage(e) ==
    /\ tierEvents < MaxTierEvents
    /\ tierEvents' = tierEvents + 1
    /\ UNCHANGED clock
    /\ IF ~e.wellformed
       THEN /\ tierLast' = NotEvaluated("error")
            /\ UNCHANGED <<tiers, tierConfig, upgrades>>
       ELSE IF e.EventType # "pos.transaction"
       THEN /\ tierLast' = NotEvaluated("skipped")
            /\ UNCHANGED <<tiers, tierConfig, upgrades>>
       ELSE IF e.Payload.kind # "pos"
       THEN /\ tierLast' = NotEvaluated("error")
            /\ UNCHANGED <<tiers, tierConfig, upgrades>>
       ELSE \E read \in StorageOutcomes, cfg \in ConfigOutcomes,
               read2 \in StorageOutcomes, save \in StorageOutcomes :
                LET existingTier == IF read = "error" \/ ~tiers.present
                                    THEN NewCustomerTier(clock) ELSE tiers
                IN  ProcessCustomerMetrics(
                        BuildMetrics(existingTier, e.Payload, clock),
                        cfg, read2, save)

\* a caller hands metrics to the calculator
EvaluateMetrics(metrics) ==
    /\ tierEvents < MaxTierEvents
    /\ tierEvents' = tierEvents + 1
    /\ UNCHANGED clock
    /\ \E cfg \in ConfigOutcomes, read \in StorageOutcomes,
          save \in StorageOutcomes :
           ProcessCustomerMetrics(metrics, cfg, read, save)

\* RecalculateAllTiers: the stored record of the customer is evaluated
\* again with the metrics it holds
RecalculateAllTiers ==
    /\ tierEvents < MaxTierEvents
    /\ tierEvents' = tierEvents + 1
    /\ UNCHANGED clock
    /\ \E list \in StorageOutcomes :
           IF list = "error" \/ ~tiers.present
           THEN /\ tierLast' = NotEvaluated(IF list = "error" THEN "error"
                                            ELSE "skipped")
                /\ UNCHANGED <<tiers, tierConfig, upgrades>>
           ELSE \E cfg \in ConfigOutcomes, read \in StorageOutcomes,
                   save \in StorageOutcomes :
                    ProcessCustomerMetrics(
                        Metrics(tiers.TotalSpent, tiers.TotalVisits,
                                tiers.SpentThisYear, tiers.VisitsThisYear,
                                tiers.SpentThisMonth, tiers.VisitsThisMonth,
                                tiers.LastTransaction, Zero),
                        cfg, read, save)

\* TierStorage.SaveTierConfig with a rule list of the organization
SaveTierConfig(rules) ==
    /\ tierConfig # rules
    /\ tierConfig' = rules
    /\ UNCHANGED <<tiers, upgrades, clock, tierLast, tierEvents>>

\* time passes: time.Now() is in the next month of the model
Tick ==
    /\ \E t \in TierTimes :
           /\ t > clock
           /\ \A u \in TierTimes : u > clock => t <= u
           /\ clock' = t
    /\ UNCHANGED <<tiers, tierConfig, upgrades, tierLast, tierEvents>>

TierInit ==
    /\ tiers = NoTier
    /\ tierConfig = NoConfig
    /\ upgrades = <<>>
    /\ clock = MonthsPerYear
    /\ tierLast = NotEvaluated("none")
    /\ tierEvents = 0

\* ------------------------------------------------------ the RFM calculator
\* The scoring and quintile functions of RFMCalculator, each applied to
\* inputs drawn from bounded sets; calcLast records the last call.
VARIABLES calcLast

calcVars == <<calcLast>>

\* quintile boundaries and counted values range over 0..MaxQuintile
MaxQuintile == 3
\* at most this many customers have an activity record in the organization
MaxCustomers == 6

\* the quintile arrays have five elements, the scores range over 1..5
NumQuintiles == 5
\* below this many customers the default quintiles are used
MinCustomers == 5
\* a float64 keeps this many significant bits
MantissaBits == 53
HoursPerDay == 24

Scores == 1..NumQuintiles

\* strconv of a decimal integer, as Sprintf("%d") prints it
RECURSIVE Decimal(_)
Decimal(n) ==
    IF n < 0 THEN <<"-">> \o Decimal(-n)
    ELSE IF n < 10 THEN <<n>>
    ELSE Decimal(n \div 10) \o <<n % 10>>

SegmentLabels ==
    {"Champions", "Loyal Customers", "Potential Loyalists", "New Customers",
     "Cannot Lose Them", "At Risk", "Need Attention", "About to Sleep",
     "Lost"}

\* the table of segments by three-digit key
RFMSegments ==
    {<<<<5, 5, 5>>, "Champions">>, <<<<5, 5, 4>>, "Champions">>,
     <<<<5, 4, 4>>, "Champions">>, <<<<5, 4, 5>>, "Champions">>,
     <<<<4, 5, 4>>, "Champions">>, <<<<4, 5, 5>>, "Champions">>,
     <<<<4, 4, 5>>, "Champions">>,
     <<<<5, 4, 3>>, "Loyal Customers">>, <<<<4, 4, 4>>, "Loyal Customers">>,
     <<<<4, 3, 5>>, "Loyal Customers">>, <<<<3, 5, 5>>, "Loyal Customers">>,
     <<<<3, 5, 4>>, "Loyal Customers">>, <<<<3, 4, 5>>, "Loyal Customers">>,
     <<<<3, 4, 4>>, "Loyal Customers">>, <<<<3, 3, 5>>, "Loyal Customers">>,
     <<<<5, 1, 2>>, "Potential Loyalists">>,
     <<<<5, 1, 1>>, "Potential Loyalists">>,
     <<<<4, 2, 2>>, "Potential Loyalists">>,
     <<<<4, 2, 1>>, "Potential Loyalists">>,
     <<<<4, 1, 2>>, "Potential Loyalists">>,
     <<<<4, 1, 1>>, "Potential Loyalists">>,
     <<<<3, 3, 3>>, "New Customers">>, <<<<3, 2, 3>>, "New Customers">>,
     <<<<3, 2, 2>>, "New Customers">>, <<<<2, 3, 2>>, "New Customers">>,
     <<<<2, 4, 1>>, "New Customers">>, <<<<2, 5, 1>>, "New Customers">>,
     <<<<1, 5, 5>>, "Cannot Lose Them">>, <<<<1, 5, 4>>, "Cannot Lose Them">>,
     <<<<1, 4, 4>>, "Cannot Lose Them">>, <<<<2, 1, 4>>, "Cannot Lose Them">>,
     <<<<2, 1, 5>>, "Cannot Lose Them">>, <<<<1, 1, 5>>, "Cannot Lose Them">>,
     <<<<2, 4, 5>>, "At Risk">>, <<<<2, 5, 4>>, "At Risk">>,
     <<<<2, 5, 3>>, "At Risk">>, <<<<2, 4, 4>>, "At Risk">>,
     <<<<2, 3, 4>>, "At Risk">>,
     <<<<3, 3, 1>>, "Need Attention">>, <<<<3, 2, 1>>, "Need Attention">>,
     <<<<3, 1, 2>>, "Need Attention">>, <<<<2, 3, 1>>, "Need Attention">>,
     <<<<1, 5, 2>>, "About to Sleep">>, <<<<2, 4, 2>>, "About to Sleep">>,
     <<<<1, 4, 2>>, "About to Sleep">>,
     <<<<1, 1, 1>>, "Lost">>, <<<<1, 1, 2>>, "Lost">>, <<<<1, 2, 1>>, "Lost">>,
     <<<<1, 3, 1>>, "Lost">>, <<<<1, 4, 1>>, "Lost">>, <<<<1, 5, 1>>, "Lost">>}

\* the rules tried in order when the key is not in the table
SegmentCascade(r, f, m) ==
    IF r >= 4 /\ f >= 4 /\ m >= 4 THEN "Champions"
    ELSE IF r >= 3 /\ f >= 3 /\ m >= 3 THEN "Loyal Customers"
    ELSE IF r >= 3 /\ f <= 2 /\ m <= 2 THEN "Potential Loyalists"
    ELSE IF r >= 4 /\ f <= 2 /\ m <= 2 THEN "New Customers"
    ELSE IF r <= 2 /\ f >= 4 /\ m >= 4 THEN "Cannot Lose Them"
    ELSE IF r <= 2 /\ f >= 3 /\ m >= 3 THEN "At Risk"
    ELSE IF r <= 3 /\ f <= 2 /\ m >= 3 THEN "Need Attention"
    ELSE IF r <= 2 /\ f <= 2 /\ m >= 3 THEN "About to Sleep"
    ELSE "Lost"

\* variant: the cascade alone, without the table
getRFMSegment_cascade(r, f, m) == SegmentCascade(r, f, m)

getRFMSegment(r, f, m) ==
    LET key == Decimal(r) \o Decimal(f) \o Decimal(m)
    IN  IF \E e \in RFMSegments : e[1] = key
        THEN (CHOOSE e \in RFMSegments : e[1] = key)[2]
        ELSE SegmentCascade(r, f, m)

\* variant: the comparison with the boundaries is strict
getRecencyScore_strict(daysSinceLast, quintiles) ==
    LET hits == {i \in 1..Len(quintiles) : daysSinceLast < quintiles[i]}
    IN  IF hits = {} THEN 1
        ELSE NumQuintiles - ((CHOOSE i \in hits : \A j \in hits : i <= j) - 1)

\* the first boundary, in the order of the array, that the days do not
\* exceed gives the score; the indices of the source start at 0
getRecencyScore(daysSinceLast, quintiles) ==
    LET hits == {i \in 1..Len(quintiles) : daysSinceLast <= quintiles[i]}
    IN  IF hits = {} THEN 1
        ELSE NumQuintiles - ((CHOOSE i \in hits : \A j \in hits : i <= j) - 1)

\* variant: the walk starts at the first boundary
getFrequencyScore_first(totalTransactions, quintiles) ==
    LET hits == {i \in 1..Len(quintiles) : totalTransactions >= quintiles[i]}
    IN  IF hits = {} THEN 1
        ELSE CHOOSE i \in hits : \A j \in hits : i <= j

\* the walk from the last boundary down stops at the first one the value
\* reaches
getFrequencyScore(totalTransactions, quintiles) ==
    LET hits == {i \in 1..Len(quintiles) : totalTransactions >= quintiles[i]}
    IN  IF hits = {} THEN 1
        ELSE CHOOSE i \in hits : \A j \in hits : i >= j

getMonetaryScore(totalSpent, quintiles) ==
    LET hits == {i \in 1..Len(quintiles) : LessEq(quintiles[i], totalSpent)}
    IN  IF hits = {} THEN 1
        ELSE CHOOSE i \in hits : \A j \in hits : i >= j

\* ---- float64 products, bit by bit
\* A natural number is the sequence of its binary digits, lowest first; a
\* float64 is a mantissa m of at most MantissaBits digits and an exponent e,
\* with the value m * 2^e.
RECURSIVE NatBits(_)
NatBits(k) == IF k = 0 THEN <<>> ELSE <<k % 2>> \o NatBits(k \div 2)

RECURSIVE BitsNat(_)
BitsNat(b) == IF b = <<>> THEN 0 ELSE b[1] + 2 * BitsNat(Tail(b))

RECURSIVE Trim(_)
Trim(b) ==
    IF b # <<>> /\ b[Len(b)] = 0 THEN Trim(SubSeq(b, 1, Len(b) - 1)) ELSE b

RECURSIVE AddBits(_, _, _)
AddBits(a, b, carry) ==
    IF a = <<>> /\ b = <<>> THEN (IF carry = 1 THEN <<1>> ELSE <<>>)
    ELSE LET x == IF a = <<>> THEN 0 ELSE a[1]
             y == IF b = <<>> THEN 0 ELSE b[1]
             s == x + y + carry
         IN  <<s % 2>> \o AddBits(IF a = <<>> THEN <<>> ELSE Tail(a),
                                  IF b = <<>> THEN <<>> ELSE Tail(b),
                                  s \div 2)

RECURSIVE MulBits(_, _)
MulBits(a, b) ==
    IF b = <<>> THEN <<>>
    ELSE LET rest == <<0>> \o MulBits(a, Tail(b))
         IN  IF b[1] = 1 THEN AddBits(a, rest, 0) ELSE rest

\* the binary digits of a number written in hexadecimal, highest digit first
RECURSIVE FromHex(_)
FromHex(h) ==
    IF h = <<>> THEN <<>>
    ELSE LET digit == h[Len(h)]
         IN  <<digit % 2, (digit \div 2) % 2, (digit \div 4) % 2,
               (digit \div 8) % 2>> \o FromHex(SubSeq(h, 1, Len(h) - 1))

\* rounding of an exact value m * 2^e to the nearest float64, ties to even
RoundFloat(m, e) ==
    LET b == Trim(m)
        drop == Len(b) - MantissaBits
    IN  IF drop <= 0 THEN [m |-> b, e |-> e]
        ELSE LET kept == SubSeq(b, drop + 1, Len(b))
                 sticky == \E i \in 1..(drop - 1) : b[i] = 1
                 up == b[drop] = 1 /\ (sticky \/ kept[1] = 1)
                 r == IF up THEN AddBits(kept, <<1>>, 0) ELSE kept
             IN  IF Len(r) > MantissaBits
                 THEN [m |-> Tail(r), e |-> e + drop + 1]
                 ELSE [m |-> r, e |-> e + drop]

Float64OfInt(k) == [m |-> NatBits(k), e |-> 0]

\* the product of two float64 values; the shorter mantissa is the multiplier
FloatMul(x, y) ==
    IF Len(y.m) <= Len(x.m) THEN RoundFloat(MulBits(x.m, y.m), x.e + y.e)
    ELSE RoundFloat(MulBits(y.m, x.m), x.e + y.e)

\* the float64 constant 0.2, 0x1999999999999A * 2^-55
Point2 ==
    [m |-> Trim(FromHex(<<1, 9, 9, 9, 9, 9, 9, 9, 9, 9, 9, 9, 9, 10>>)),
     e |-> -55]

\* int(math.Ceil(x)) of a float64 that is not negative
CeilInt(x) ==
    IF x.e >= 0 THEN BitsNat(x.m) * 2^(x.e)
    ELSE LET k == -(x.e)
             whole == IF k >= Len(x.m) THEN <<>>
                      ELSE SubSeq(x.m, k + 1, Len(x.m))
             fraction == \E i \in 1..k : i <= Len(x.m) /\ x.m[i] = 1
         IN  BitsNat(whole) + (IF fraction THEN 1 ELSE 0)

\* the index, counted from 0, of the boundary i among n sorted values
QuintileIndex(i, n) ==
    LET percentile == FloatMul(Float64OfInt(i + 1), Point2)
        index == CeilInt(FloatMul(percentile, Float64OfInt(n))) - 1
    IN  IF index >= n THEN n - 1 ELSE index

\* the indices of the five boundaries for every number of customers of the
\* model, computed once
QuintileIndexes ==
    [n \in 1..MaxCustomers |->
        [i \in 0..(NumQuintiles - 1) |-> QuintileIndex(i, n)]]

\* variant: the values are taken in the order of the customers
calculateIntQuintiles_unsorted(values) ==
    [i \in 1..NumQuintiles |->
        values[QuintileIndexes[Len(values)][i - 1] + 1]]

calculateIntQuintiles(values) ==
    LET sorted == SortSeq(values, LAMBDA a, b : a < b)
    IN  [i \in 1..NumQuintiles |->
            sorted[QuintileIndexes[Len(values)][i - 1] + 1]]

calculateFloatQuintiles(values) ==
    LET sorted == SortSeq(values, Less)
    IN  [i \in 1..NumQuintiles |->
            sorted[QuintileIndexes[Len(values)][i - 1] + 1]]

getDefaultQuintiles ==
    [err |-> FALSE,
     RecencyQuintiles |-> <<7, 30, 90, 180, 365>>,
     FrequencyQuintiles |-> <<1, 2, 5, 10, 20>>,
     MonetaryQuintiles |-> <<Frac(10, 1), Frac(25, 1), Frac(50, 1),
                             Frac(100, 1), Frac(250, 1)>>]

\* int(d.Hours() / 24): the conversion truncates toward zero
DaysBetween(now, then) ==
    IF now >= then THEN (now - then) \div HoursPerDay
    ELSE -((then - now) \div HoursPerDay)

CalculateQuintilesForOrg(acts, read, now) ==
    IF read = "error"
    THEN [err |-> TRUE, RecencyQuintiles |-> <<>>,
          FrequencyQuintiles |-> <<>>, MonetaryQuintiles |-> <<>>]
    ELSE IF Len(acts) < MinCustomers THEN getDefaultQuintiles
    ELSE [err |-> FALSE,
          RecencyQuintiles |->
              calculateIntQuintiles(
                  [i \in 1..Len(acts) |->
                      DaysBetween(now, acts[i].LastTransaction)]),
          FrequencyQuintiles |->
              calculateIntQuintiles(
                  [i \in 1..Len(acts) |-> acts[i].TotalTransactions]),
          MonetaryQuintiles |->
              calculateFloatQuintiles(
                  [i \in 1..Len(acts) |-> acts[i].TotalSpent])]

\* ---- the inputs
\* the arrays of five boundaries in non-decreasing order
IntQuintiles ==
    {q \in [1..NumQuintiles -> 0..MaxQuintile] :
        \A i \in 1..(NumQuintiles - 1) : q[i] <= q[i + 1]}

FloatQuintiles ==
    {[i \in 1..NumQuintiles |-> Frac(q[i], 1)] : q \in IntQuintiles}

\* days since the last transaction; a transaction dated in the future gives
\* a negative number
Days == -1..(MaxQuintile + 1)

Spends ==
    {Norm(Frac(k, 2)) : k \in -1..(2 * MaxQuintile + 1)}

\* the values of one dimension, one per customer
QuintileValues == {1, 3, 5}

ValueLists ==
    UNION {[1..n -> QuintileValues] : n \in 1..MaxCustomers}

\* the time of the quintile computation, in hours
QuintileNow == 240

\* the activity of a customer: five days ago, less than two days ago, and
\* dated in the future
ActivityProfiles ==
    {[LastTransaction |-> QuintileNow - 5 * HoursPerDay,
      TotalTransactions |-> 5, TotalSpent |-> Frac(100, 1)],
     [LastTransaction |-> QuintileNow - (2 * HoursPerDay - 1),
      TotalTransactions |-> 1, TotalSpent |-> Frac(-21, 2)],
     [LastTransaction |-> QuintileNow + HoursPerDay + 6,
      TotalTransactions |-> 10, TotalSpent |-> Frac(499, 2)]}

ActivityLists ==
    UNION {[1..n -> ActivityProfiles] : n \in 0..MaxCustomers}

Called(op, args, value) == [op |-> op, args |-> args, result |-> value]

\* ---- the calls
\* one call at a time: a function is applied when no result is pending
Idle == Called("none", <<>>, <<>>)

GetRFMSegment ==
    /\ calcLast = Idle
    /\ \E r \in Scores, f \in Scores, m \in Scores :
           calcLast' = Called("getRFMSegment", <<r, f, m>>,
                              getRFMSegment(r, f, m))

GetRecencyScore ==
    /\ calcLast = Idle
    /\ \E d \in Days, q \in IntQuintiles :
           calcLast' = Called("getRecencyScore", <<d, q>>,
                              getRecencyScore(d, q))

GetFrequencyScore ==
    /\ calcLast = Idle
    /\ \E v \in Days, q \in IntQuintiles :
           calcLast' = Called("getFrequencyScore", <<v, q>>,
                              getFrequencyScore(v, q))

GetMonetaryScore ==
    /\ calcLast = Idle
    /\ \E v \in Spends, q \in FloatQuintiles :
           calcLast' = Called("getMonetaryScore", <<v, q>>,
                              getMonetaryScore(v, q))

CalculateIntQuintiles ==
    /\ calcLast = Idle
    /\ \E values \in ValueLists :
           calcLast' = Called("calculateIntQuintiles", <<values>>,
                              calculateIntQuintiles(values))

\* the float values are the halves of the integer ones
CalculateFloatQuintiles ==
    /\ calcLast = Idle
    /\ \E ints \in ValueLists :
           LET values == [i \in 1..Len(ints) |-> Frac(ints[i], 2)]
           IN  calcLast' = Called("calculateFloatQuintiles", <<values>>,
                                  calculateFloatQuintiles(values))

QuintilesForOrg ==
    /\ calcLast = Idle
    /\ \E acts \in ActivityLists, read \in StorageOutcomes :
           calcLast' = Called("CalculateQuintilesForOrg", <<acts, read>>,
                              CalculateQuintilesForOrg(acts, read,
                                                       QuintileNow))

\* the result has been taken
CalcReturn ==
    /\ calcLast # Idle
    /\ calcLast' = Idle

CalcInit == calcLast = Idle

\* ------------------------------------- the ledger handlers and their errors
\* The handlers of LedgerHandler over the repository interface: a call of
\* the repository succeeds or returns an error.  served is the last request
\* with the response written for it and the number of repository calls made.
VARIABLES served

handlerVars == <<served>>

NotServed ==
    [op |-> "none", request |-> <<>>, status |-> 0, fields |-> {},
     repoCalls |-> 0]

\* c.JSON(status, gin.H{"error": ...})
ErrorResponse(op, request, status, repoCalls) ==
    [op |-> op, request |-> request, status |-> status,
     fields |-> {"error"}, repoCalls |-> repoCalls]

\* c.JSON(status, value): the JSON object of the value, by its field names
Response(op, request, status, fields) ==
    [op |-> op, request |-> request, status |-> status, fields |-> fields,
     repoCalls |-> 1]

AccountFields ==
    {"id", "org_id", "customer_id", "account_type", "code", "debits_posted",
     "credits_posted", "timestamp"}

LedgerHandlerCreateAccount(body, repo) ==
    served' =
        IF ~BindAccountRequest(body)
        THEN ErrorResponse("CreateAccount", body, 400, 0)
        ELSE IF repo = "error"
        THEN ErrorResponse("CreateAccount", body, 500, 1)
        ELSE Response("CreateAccount", body, 201, AccountFields)

LedgerHandlerCreateTransfer(body, repo) ==
    served' =
        IF ~BindTransferRequest(body)
        THEN ErrorResponse("CreateTransfer", body, 400, 0)
        ELSE IF repo = "error"
        THEN ErrorResponse("CreateTransfer", body, 500, 1)
        ELSE Response("CreateTransfer", body, 201, {"transfer_id", "status"})

\* variant: a failed lookup is reported as an internal error
LedgerHandlerGetAccount_internal(accountID, repo) ==
    served' =
        IF accountID = EmptyStr
        THEN ErrorResponse("GetAccount", accountID, 400, 0)
        ELSE IF repo = "error"
        THEN ErrorResponse("GetAccount", accountID, 500, 1)
        ELSE Response("GetAccount", accountID, 200, AccountFields)

LedgerHandlerGetAccount(accountID, repo) ==
    served' =
        IF accountID = EmptyStr
        THEN ErrorResponse("GetAccount", accountID, 400, 0)
        ELSE IF repo = "error"
        THEN ErrorResponse("GetAccount", accountID, 404, 1)
        ELSE Response("GetAccount", accountID, 200, AccountFields)

LedgerHandlerGetBalance(orgID, customerID, repo) ==
    served' =
        IF orgID = EmptyStr \/ customerID = EmptyStr
        THEN ErrorResponse("GetBalance", <<orgID, customerID>>, 400, 0)
        ELSE IF repo = "error"
        THEN ErrorResponse("GetBalance", <<orgID, customerID>>, 500, 1)
        ELSE Response("GetBalance", <<orgID, customerID>>, 200,
                      {"org_id", "customer_id", "points_balance",
                       "stamps_balance"})

\* the requests: the bodies of the ledger's API, and account bodies of both
\* organizations with and without a customer
HandlerAccountBodies ==
    AccountBodies
    \cup {AccountBody(o, c, t, 1, TRUE) :
              o \in {OrgA, OrgAB}, c \in {EmptyStr, CustC, CustBC},
              t \in {1, 2}}

AccountIDs ==
    {EmptyStr, generateStringID(1), generateStringID(2),
     generateOrgLiabilityAccount(OrgA),
     generateCustomerPointsAccount(OrgA, CustC)}

HandlerInit == served = NotServed

\* ------------------------------------------- the ledger service under load
\* gin serves every request on a goroutine of its own and the handlers share
\* one MockTigerBeetleRepo, whose maps and accounts have no lock. A request
\* of POST /transfers is followed through CreateTransfer: the write of the
\* transfers map, then for the debit and for the credit account the read
\* and the write of the counter that `+=` performs.
\* workers: per request goroutine, its position, its request and the
\*          counter value it has read
\* crashed: the runtime has stopped the process (concurrent map writes)
VARIABLES workers, crashed

serverVars == <<workers, crashed>>

\* at most this many requests are in flight in a run of the ledger service
MaxRequests == 2

Goroutines == 1..MaxRequests

ConcurrentBodies ==
    {TransferBody(OrgA, CustC, PointsAccrual, a, TRUE) : a \in {1, 2}}
    \cup {TransferBody(OrgA, CustC, PointsRedemption, 1, TRUE),
          TransferBody(OrgA, CustC, PointsAccrual, 0, TRUE)}

NoWork == [pc |-> "idle", req |-> TransferBody(EmptyStr, EmptyStr, EmptyStr, 0, FALSE), tmp |-> 0]

\* two writes of one map at the same time: the runtime lets both through or
\* throws "concurrent map writes"
MapRaceOutcomes == {"serialized", "fatal"}

\* LedgerHandler.CreateTransfer on a goroutine of its own: the binding
Accept(g, body) ==
    /\ ~crashed
    /\ workers[g].pc = "idle"
    /\ IF ~BindTransferRequest(body)
       THEN /\ workers' = [workers EXCEPT ![g] = [@ EXCEPT !.pc = "done",
                                                           !.req = body]]
            /\ last' = [op |-> "CreateTransfer", body |-> body, status |-> 400]
       ELSE /\ workers' = [workers EXCEPT ![g] = [@ EXCEPT !.pc = "record",
                                                           !.req = body]]
            /\ UNCHANGED last
    /\ UNCHANGED <<accounts, transfers, created, crashed>>

\* MockTigerBeetleRepo.CreateTransfer: r.transfers[transferID] = transfer
RecordTransfer(g, race) ==
    /\ ~crashed
    /\ workers[g].pc = "record"
    /\ LET req == workers[g].req
           ids == TransferAccounts(req)
           transfer == [ID |-> generateStringID(Len(transfers) + 1),
                        DebitAccountID |-> ids.debit,
                        CreditAccountID |-> ids.credit,
                        Amount |-> req.Amount,
                        Code |-> req.Code,
                        Reference |-> req.Reference]
           contended == \E h \in Goroutines \ {g} : workers[h].pc = "record"
       IN  IF contended /\ race = "fatal"
           THEN /\ crashed' = TRUE
                /\ UNCHANGED <<transfers, workers>>
           ELSE /\ race = "serialized"
                /\ transfers' = Append(transfers, transfer)
                /\ workers' = [workers EXCEPT ![g].pc = "loadDebit"]
                /\ UNCHANGED crashed
    /\ UNCHANGED <<accounts, created, last>>

AccountOf(g, isDebit) ==
    IF isDebit THEN TransferAccounts(workers[g].req).debit
    ELSE TransferAccounts(workers[g].req).credit

\* updateAccountBalance up to the read of the counter: the account is
\* looked up, and created when it does not exist
LoadCounter(g, isDebit) ==
    /\ ~crashed
    /\ workers[g].pc = (IF isDebit THEN "loadDebit" ELSE "loadCredit")
    /\ LET id == AccountOf(g, isDebit)
           account == IF id \in DOMAIN accounts THEN accounts[id]
                      ELSE NewAccount(id, EmptyStr, EmptyStr, 0, 0)
       IN  /\ accounts' = Put(accounts, id, account)
           /\ workers' = [workers EXCEPT
                             ![g].pc = IF isDebit THEN "storeDebit"
                                       ELSE "storeCredit",
                             ![g].tmp = IF isDebit THEN account.DebitsPosted
                                        ELSE account.CreditsPosted]
    /\ UNCHANGED <<transfers, created, last, crashed>>

\* updateAccountBalance: the write of the counter read before, plus the
\* amount; the handler answers 201 after the second one
StoreCounter(g, isDebit) ==
    /\ ~crashed
    /\ workers[g].pc = (IF isDebit THEN "storeDebit" ELSE "storeCredit")
    /\ LET id == AccountOf(g, isDebit)
           sum == (workers[g].tmp + workers[g].req.Amount) % UintMod
       IN  accounts' =
               IF isDebit
               THEN [accounts EXCEPT ![id].DebitsPosted = sum]
               ELSE [accounts EXCEPT ![id].CreditsPosted = sum]
    /\ workers' = [workers EXCEPT
                      ![g].pc = IF isDebit THEN "loadCredit" ELSE "done"]
    /\ last' = IF isDebit THEN last
               ELSE [op |-> "CreateTransfer", body |-> workers[g].req,
                     status |-> 201]
    /\ UNCHANGED <<transfers, created, crashed>>

ServerInit ==
    /\ workers = [g \in Goroutines |-> NoWork]
    /\ crashed = FALSE

\* ---------------------------------------------------------- specifications
vars == <<accounts, transfers, created, last, pc, ev, loc, result, calls,
          processed, consumerVars, routerVars, rfmVars, tierVars, calcVars,
          handlerVars, serverVars>>

Init == LedgerInit /\ StreamInit /\ ConsumerInit /\ RouterInit
        /\ RfmInit /\ TierInit /\ CalcInit /\ HandlerInit /\ ServerInit

\* what the actions of each component leave alone
nonLedgerVars ==
    <<streamVars, consumerVars, routerVars, rfmVars,
      tierVars, calcVars, handlerVars, serverVars>>
nonStreamVars ==
    <<consumerVars, routerVars, rfmVars, tierVars,
      calcVars, handlerVars, serverVars>>
nonConsumerVars ==
    <<ledgerVars, streamVars, routerVars, rfmVars,
      tierVars, calcVars, handlerVars, serverVars>>
nonRouterVars ==
    <<ledgerVars, streamVars, consumerVars, rfmVars,
      tierVars, calcVars, handlerVars, serverVars>>
nonRfmVars ==
    <<ledgerVars, streamVars, consumerVars, routerVars,
      tierVars, calcVars, handlerVars, serverVars>>
nonTierVars ==
    <<ledgerVars, streamVars, consumerVars, routerVars,
      rfmVars, calcVars, handlerVars, serverVars>>
nonCalcVars ==
    <<ledgerVars, streamVars, consumerVars, routerVars,
      rfmVars, tierVars, handlerVars, serverVars>>
nonHandlerVars ==
    <<ledgerVars, streamVars, consumerVars, routerVars,
      rfmVars, tierVars, calcVars, serverVars>>
nonServerVars ==
    <<streamVars, consumerVars, routerVars, rfmVars,
      tierVars, calcVars, handlerVars>>

\* the ledger service driven through its HTTP API
LedgerNext ==
    \/ \E body \in AccountBodies :
           HandlerCreateAccount(body) /\ UNCHANGED nonLedgerVars
    \/ \E body \in TransferBodies :
           HandlerCreateTransfer(body) /\ UNCHANGED nonLedgerVars

Next == LedgerNext

Spec == Init /\ [][Next]_vars

\* the stream processor posting to the ledger service
StreamNext ==
    \/ \E e \in Events : Fetch(e) /\ UNCHANGED nonStreamVars
    \/ \E outcome \in LookupOutcomes :
           GetCustomer(outcome) /\ UNCHANGED nonStreamVars
    \/ \E outcome \in LookupOutcomes, settings \in OrgSettings :
           GetOrganization(outcome, settings) /\ UNCHANGED nonStreamVars
    \/ \E net \in NetOutcomes : PostPoints(net) /\ UNCHANGED nonStreamVars
    \/ \E net \in NetOutcomes : PostStamps(net) /\ UNCHANGED nonStreamVars
    \/ CheckRewards /\ UNCHANGED nonStreamVars
    \/ \E net \in NetOutcomes : PostAction(net) /\ UNCHANGED nonStreamVars
    \/ Commit /\ UNCHANGED nonStreamVars

SpecStream == Init /\ [][StreamNext]_vars

\* one consumer loop over the tenant's log
ConsumerNext ==
    \/ \E topic \in Topics : WriteMessages(topic) /\ UNCHANGED nonConsumerVars
    \/ \E s \in Services : StartService(s) /\ UNCHANGED nonConsumerVars
    \/ FetchMessage /\ UNCHANGED nonConsumerVars
    \/ \E outcome \in {"success", "failed", "error", "ok", "panic"} :
           ProcessMessage(outcome) /\ UNCHANGED nonConsumerVars
    \/ \E outcome \in CommitOutcomes :
           CommitMessages(outcome) /\ UNCHANGED nonConsumerVars
    \/ Shutdown /\ UNCHANGED nonConsumerVars

SpecConsumer == Init /\ [][ConsumerNext]_vars

\* the loop of a service whose context is not cancelled: a fetch returns
\* when a message is available, the processor and the commit return
ConsumerLoopNext ==
    \/ \E topic \in Topics : WriteMessages(topic) /\ UNCHANGED nonConsumerVars
    \/ \E s \in Services : StartService(s) /\ UNCHANGED nonConsumerVars
    \/ FetchMessage /\ UNCHANGED nonConsumerVars
    \/ \E outcome \in {"success", "failed", "error", "ok", "panic"} :
           ProcessMessage(outcome) /\ UNCHANGED nonConsumerVars
    \/ \E outcome \in CommitOutcomes :
           CommitMessages(outcome) /\ UNCHANGED nonConsumerVars

SpecConsumerLoop ==
    /\ Init
    /\ [][ConsumerLoopNext]_vars
    /\ WF_vars(FetchMessage /\ UNCHANGED nonConsumerVars)
    /\ WF_vars(\E outcome \in {"success", "failed", "error", "ok", "panic"} :
                   ProcessMessage(outcome) /\ UNCHANGED nonConsumerVars)
    /\ WF_vars(\E outcome \in CommitOutcomes :
                   CommitMessages(outcome) /\ UNCHANGED nonConsumerVars)

\* a consumer loop and the shutdown signal; the processor and the commit
\* return, and a cancelled context is seen at the top of the loop
ShutdownNext ==
    \/ \E topic \in Topics : WriteMessages(topic) /\ UNCHANGED nonConsumerVars
    \/ \E s \in Services : StartService(s) /\ UNCHANGED nonConsumerVars
    \/ FetchMessage /\ UNCHANGED nonConsumerVars
    \/ \E outcome \in {"success", "failed", "error", "ok", "panic"} :
           ProcessMessage(outcome) /\ UNCHANGED nonConsumerVars
    \/ \E outcome \in CommitOutcomes :
           CommitMessages(outcome) /\ UNCHANGED nonConsumerVars
    \/ Signal /\ UNCHANGED nonConsumerVars
    \/ Shutdown /\ UNCHANGED nonConsumerVars

SpecShutdown ==
    /\ Init
    /\ [][ShutdownNext]_vars
    /\ WF_vars(\E outcome \in {"success", "failed", "error", "ok", "panic"} :
                   ProcessMessage(outcome) /\ UNCHANGED nonConsumerVars)
    /\ WF_vars(\E outcome \in CommitOutcomes :
                   CommitMessages(outcome) /\ UNCHANGED nonConsumerVars)
    /\ WF_vars(cancelled.done /\ Shutdown /\ UNCHANGED nonConsumerVars)

\* the mock router with its publishers and subscribers
RouterNext ==
    \/ \E topic \in Patterns \cup {<<>>} :
           handleConsumer(topic) /\ UNCHANGED nonRouterVars
    \/ \E c \in 1..MaxConns : Close(c) /\ UNCHANGED nonRouterVars
    \/ \E c \in 1..MaxConns : RemoveConsumer(c) /\ UNCHANGED nonRouterVars
    \/ \E topic \in RTopics \cup {<<>>}, valid \in BOOLEAN :
           handlePublish(topic, valid) /\ UNCHANGED nonRouterVars
    \/ \E p \in 1..MaxPublishes, race \in RaceOutcomes :
           BeginWrite(p, race) /\ UNCHANGED nonRouterVars
    \/ \E p \in 1..MaxPublishes : EndWrite(p) /\ UNCHANGED nonRouterVars
    \/ \E c \in 1..MaxConns : readMessages(c) /\ UNCHANGED nonRouterVars
    \/ \E c \in 1..MaxConns : ReadEvent(c) /\ UNCHANGED nonRouterVars

SpecRouter == Init /\ [][RouterNext]_vars

\* the fan-out of the router to subscribers that may close or stall; the
\* goroutine of a publish request keeps running
FanoutNext ==
    \/ \E topic \in Patterns :
           handleConsumer(topic) /\ UNCHANGED nonRouterVars
    \/ \E c \in 1..MaxConns : Close(c) /\ UNCHANGED nonRouterVars
    \/ \E c \in 1..MaxConns : Stall(c) /\ UNCHANGED nonRouterVars
    \/ \E topic \in RTopics :
           handlePublish(topic, TRUE) /\ UNCHANGED nonRouterVars
    \/ \E p \in 1..MaxPublishes, race \in RaceOutcomes :
           BeginWrite(p, race) /\ UNCHANGED nonRouterVars
    \/ \E p \in 1..MaxPublishes : EndWrite(p) /\ UNCHANGED nonRouterVars

SpecFanout ==
    /\ Init
    /\ [][FanoutNext]_vars
    /\ WF_vars(\E p \in 1..MaxPublishes, race \in RaceOutcomes :
                   BeginWrite(p, race) /\ UNCHANGED nonRouterVars)
    /\ WF_vars(\E p \in 1..MaxPublishes :
                   EndWrite(p) /\ UNCHANGED nonRouterVars)

\* the RFM processor handling one message after the other
RfmNext ==
    \E e \in AnalyticsEvents, read \in StorageOutcomes,
       write \in StorageOutcomes, score \in StorageOutcomes :
        RfmProcessMessage(e, read, write, score) /\ UNCHANGED nonRfmVars

SpecRfm == Init /\ [][RfmNext]_vars

\* the tier calculator called with metrics
TierNext ==
    \/ \E metrics \in MetricsInputs(clock) :
           EvaluateMetrics(metrics) /\ UNCHANGED nonTierVars
    \/ \E rules \in TierConfigs : SaveTierConfig(rules) /\ UNCHANGED nonTierVars
    \/ Tick /\ UNCHANGED nonTierVars

SpecTier == Init /\ [][TierNext]_vars

\* the tier calculator called with metrics and by the scheduled
\* recalculation
TierRecalcNext ==
    \/ \E metrics \in MetricsInputs(clock) :
           EvaluateMetrics(metrics) /\ UNCHANGED nonTierVars
    \/ RecalculateAllTiers /\ UNCHANGED nonTierVars
    \/ \E rules \in TierConfigs : SaveTierConfig(rules) /\ UNCHANGED nonTierVars
    \/ Tick /\ UNCHANGED nonTierVars

SpecTierRecalc == Init /\ [][TierRecalcNext]_vars

\* the tier processor handling one message after the other
TierProcessorNext ==
    \/ \E e \in TierEvents(clock) :
           TierProcessMessage(e) /\ UNCHANGED nonTierVars
    \/ \E rules \in TierConfigs : SaveTierConfig(rules) /\ UNCHANGED nonTierVars
    \/ Tick /\ UNCHANGED nonTierVars

SpecTierProcessor == Init /\ [][TierProcessorNext]_vars

\* one transaction event of the tenant's log delivered, and delivered
\* again, to the stream processor, the RFM processor and the tier processor,
\* each in its own consumer group
RedeliveredPOS ==
    Event(TRUE, "pos.transaction", OrgA, CustC, POSPayload(Frac(50, 1)))

RedeliveredTx ==
    AnalyticsEvent(TRUE, "pos.transaction", CustC, MonthsPerYear,
                   TxPayload(Frac(50, 1), MonthsPerYear))

RedeliverySettings ==
    {s \in OrgSettings : /\ s.PointsPerDollar \in {Frac(2, 1), Frac(0, 1)}
                         /\ s.StampsPerVisit = 1
                         /\ s.RewardThresholds = <<>>}

\* a consumer group that has had the event twice gets it no more
DeliveredTwice(deliveries) == deliveries > 1

RedeliveryNext ==
    \/ /\ ~DeliveredTwice(processed)
       /\ Fetch(RedeliveredPOS) /\ UNCHANGED nonStreamVars
    \/ \E outcome \in LookupOutcomes :
           GetCustomer(outcome) /\ UNCHANGED nonStreamVars
    \/ \E outcome \in LookupOutcomes, settings \in RedeliverySettings :
           GetOrganization(outcome, settings) /\ UNCHANGED nonStreamVars
    \/ \E net \in NetOutcomes : PostPoints(net) /\ UNCHANGED nonStreamVars
    \/ \E net \in NetOutcomes : PostStamps(net) /\ UNCHANGED nonStreamVars
    \/ CheckRewards /\ UNCHANGED nonStreamVars
    \/ Commit /\ UNCHANGED nonStreamVars
    \/ /\ ~DeliveredTwice(rfmEvents)
       /\ \E read \in StorageOutcomes, write \in StorageOutcomes :
              RfmProcessMessage(RedeliveredTx, read, write, "ok")
              /\ UNCHANGED nonRfmVars
    \/ /\ ~DeliveredTwice(tierEvents)
       /\ TierProcessMessage(RedeliveredTx) /\ UNCHANGED nonTierVars

SpecRedelivery == Init /\ [][RedeliveryNext]_vars

\* the ledger service with several requests in flight
ServerNext ==
    \/ \E g \in Goroutines, body \in ConcurrentBodies :
           Accept(g, body) /\ UNCHANGED nonServerVars
    \/ \E g \in Goroutines, race \in MapRaceOutcomes :
           RecordTransfer(g, race) /\ UNCHANGED nonServerVars
    \/ \E g \in Goroutines, isDebit \in BOOLEAN :
           LoadCounter(g, isDebit) /\ UNCHANGED nonServerVars
    \/ \E g \in Goroutines, isDebit \in BOOLEAN :
           StoreCounter(g, isDebit) /\ UNCHANGED nonServerVars

SpecServer == Init /\ [][ServerNext]_vars

\* the functions of the RFM calculator applied to their inputs
CalcNext ==
    \/ GetRFMSegment /\ UNCHANGED nonCalcVars
    \/ GetRecencyScore /\ UNCHANGED nonCalcVars
    \/ GetFrequencyScore /\ UNCHANGED nonCalcVars
    \/ GetMonetaryScore /\ UNCHANGED nonCalcVars
    \/ CalculateIntQuintiles /\ UNCHANGED nonCalcVars
    \/ CalculateFloatQuintiles /\ UNCHANGED nonCalcVars
    \/ QuintilesForOrg /\ UNCHANGED nonCalcVars
    \/ CalcReturn /\ UNCHANGED nonCalcVars

SpecCalc == Init /\ [][CalcNext]_vars

\* the ledger handlers over a repository that may fail
HandlerNext ==
    \/ \E body \in HandlerAccountBodies, repo \in StorageOutcomes :
           LedgerHandlerCreateAccount(body, repo) /\ UNCHANGED nonHandlerVars
    \/ \E body \in TransferBodies, repo \in StorageOutcomes :
           LedgerHandlerCreateTransfer(body, repo) /\ UNCHANGED nonHandlerVars
    \/ \E accountID \in AccountIDs, repo \in StorageOutcomes :
           LedgerHandlerGetAccount(accountID, repo) /\ UNCHANGED nonHandlerVars
    \/ \E orgID \in {EmptyStr, OrgA, OrgAB},
          customerID \in {EmptyStr, CustC, CustBC}, repo \in StorageOutcomes :
           LedgerHandlerGetBalance(orgID, customerID, repo)
           /\ UNCHANGED nonHandlerVars

SpecHandler == Init /\ [][HandlerNext]_vars

\* ------------------------------------------------------------- properties
Debits(accts, k) == IF k \in DOMAIN accts THEN accts[k].DebitsPosted ELSE 0

Credits(accts, k) == IF k \in DOMAIN accts THEN accts[k].CreditsPosted ELSE 0

\* a step that records a transfer, and the transfer it records
RecordsTransfer == Len(transfers') = Len(transfers) + 1

LastTransfer(xfers) == xfers[Len(xfers)]

\* the last request was a POST /transfers answered 201
TransferCreated == last.op = "CreateTransfer" /\ last.status = 201

\* C1: every recorded transfer of amount A adds A to the debits_posted of
\* exactly one account and A to the credits_posted of exactly one other
\* account; no other counter and no other field of any account changes.
C1_DoubleEntry ==
    [][RecordsTransfer =>
         LET T == LastTransfer(transfers')
             debited == {k \in DOMAIN accounts' :
                            Debits(accounts', k) # Debits(accounts, k)}
             credited == {k \in DOMAIN accounts' :
                            Credits(accounts', k) # Credits(accounts, k)}
         IN  /\ T.Amount = last'.body.Amount
             /\ debited = {T.DebitAccountID}
             /\ credited = {T.CreditAccountID}
             /\ T.DebitAccountID # T.CreditAccountID
             /\ Debits(accounts', T.DebitAccountID)
                    = Debits(accounts, T.DebitAccountID) + T.Amount
             /\ Credits(accounts', T.CreditAccountID)
                    = Credits(accounts, T.CreditAccountID) + T.Amount
             /\ DOMAIN accounts \subseteq DOMAIN accounts'
             /\ \A k \in DOMAIN accounts :
                    /\ accounts'[k].OrgID = accounts[k].OrgID
                    /\ accounts'[k].CustomerID = accounts[k].CustomerID
                    /\ accounts'[k].Code = accounts[k].Code
                    /\ accounts'[k].AccountType = accounts[k].AccountType]_vars

\* C1 witness: two transfers are recorded and one account has been both
\* debited and credited.
C1_Witness ==
    /\ TransferCreated
    /\ Len(transfers) = 2
    /\ \E k \in DOMAIN accounts :
           accounts[k].DebitsPosted = 2 /\ accounts[k].CreditsPosted = 1

\* C2 (as claimed): a transfer of S for (org, customer) moves the balance
\* of its own kind by S (up for an accrual, down for a redemption) and
\* leaves the balance of the other kind alone, so that GetBalance returns
\* the accrued minus the redeemed quantity of each kind.
C2_BalancePerKind ==
    [][(RecordsTransfer /\ last'.body.TransactionType
            \in {PointsAccrual, StampsAccrual, PointsRedemption, StampsRedemption}) =>
         LET req == last'.body
             S == req.Amount
             before == RepoGetBalance(accounts, req.OrgID, req.CustomerID)
             after == RepoGetBalance(accounts', req.OrgID, req.CustomerID)
         IN  CASE req.TransactionType = PointsAccrual ->
                      /\ after.points = (before.points + S) % UintMod
                      /\ after.stamps = before.stamps
               [] req.TransactionType = StampsAccrual ->
                      /\ after.stamps = (before.stamps + S) % UintMod
                      /\ after.points = before.points
               [] req.TransactionType = PointsRedemption ->
                      /\ after.points = (before.points - S) % UintMod
                      /\ after.stamps = before.stamps
               [] req.TransactionType = StampsRedemption ->
                      /\ after.stamps = (before.stamps - S) % UintMod
                      /\ after.points = before.points]_vars

\* the accounts of a created transfer are the organization's liability
\* account and the customer's account, in the given direction
Flows(T, req, fromLiability) ==
    LET liability == generateOrgLiabilityAccount(req.OrgID)
        customer == generateCustomerPointsAccount(req.OrgID, req.CustomerID)
    IN  /\ T.DebitAccountID = IF fromLiability THEN liability ELSE customer
        /\ T.CreditAccountID = IF fromLiability THEN customer ELSE liability
        /\ Debits(accounts, T.DebitAccountID) >= T.Amount
        /\ Credits(accounts, T.CreditAccountID) >= T.Amount

C4_NonPositiveRejected ==
    [][(last'.op = "CreateTransfer" /\ last'.body.Amount <= 0) =>
         /\ last'.status = 400
         /\ transfers' = transfers
         /\ accounts' = accounts]_vars

\* C4 witness: a well-formed request with amount zero was answered 400 by
\* a ledger that already holds a transfer.
C4_Witness ==
    /\ last.op = "CreateTransfer"
    /\ last.body.wellformed
    /\ last.body.Amount = 0
    /\ last.status = 400
    /\ Len(transfers) = 1

\* credits_posted - debits_posted of the customer's points account
DerivedBalance(accts, orgID, customerID) ==
    Credits(accts, generateCustomerPointsAccount(orgID, customerID))
    - Debits(accts, generateCustomerPointsAccount(orgID, customerID))

\* C5 (as claimed): a points redemption of more than the customer's balance
\* is answered 201, and GetBalance then reports the negative difference.
C5_NegativeBalanceReported ==
    [][(/\ last'.op = "CreateTransfer"
        /\ BindTransferRequest(last'.body)
        /\ last'.body.TransactionType = PointsRedemption
        /\ last'.body.Amount
               > DerivedBalance(accounts, last'.body.OrgID, last'.body.CustomerID)) =>
         /\ last'.status = 201
         /\ RepoGetBalance(accounts', last'.body.OrgID, last'.body.CustomerID).points
                = DerivedBalance(accounts, last'.body.OrgID, last'.body.CustomerID)
                  - last'.body.Amount]_vars

\* C6 (as claimed): no two accounts of the ledger have the same
\* (org_id, customer_id, code).
C6_UniqueTriple ==
    \A j, k \in DOMAIN accounts :
        j # k => <<accounts[j].OrgID, accounts[j].CustomerID, accounts[j].Code>>
                 # <<accounts[k].OrgID, accounts[k].CustomerID, accounts[k].Code>>

\* the processing of a POS event has ended with Success
PosCompleted ==
    /\ pc = "done"
    /\ ev.wellformed
    /\ ev.EventType = "pos.transaction"
    /\ loc.org = "ok"
    /\ result.Success

CallsOfType(type) == SelectSeq(calls, LAMBDA c : c.req.TransactionType = type)

\* the transfers the ledger recorded since the event was fetched are those
\* of the calls, amount and reference included
RecordedAsCalled ==
    /\ Len(transfers) = loc.base + Len(calls)
    /\ \A i \in 1..Len(calls) :
           /\ transfers[loc.base + i].Amount = calls[i].req.Amount
           /\ transfers[loc.base + i].Reference = calls[i].req.Reference

PostedForPos(pointsPosted, stampsPosted) ==
    /\ Len(CallsOfType(PointsAccrual)) = IF pointsPosted THEN 1 ELSE 0
    /\ Len(CallsOfType(StampsAccrual)) = IF stampsPosted THEN 1 ELSE 0
    /\ Len(calls) = Len(CallsOfType(PointsAccrual)) + Len(CallsOfType(StampsAccrual))
    /\ \A i \in 1..Len(calls) :
           /\ calls[i].req.Reference = <<"pos_transaction_">> \o ev.Payload.TransactionID
           /\ calls[i].req.Amount = IF calls[i].req.TransactionType = PointsAccrual
                                    THEN loc.pointsEarned
                                    ELSE loc.stampsEarned
    /\ RecordedAsCalled

C8_EarnedQuantities ==
    pc \in {"points", "stamps", "rewards"} =>
        LET amount == ev.Payload.Amount
            rate == loc.settings.PointsPerDollar
            num == amount.n * rate.n
            den == amount.d * rate.d
            p == loc.pointsEarned
        IN  /\ rate.n > 0 => p * den <= num /\ num < (p + 1) * den
            /\ rate.n > 0 /\ amount.n < 0 => p < 0
            /\ rate.n <= 0 => p = 0
            /\ loc.stampsEarned = loc.settings.StampsPerVisit

\* C8 witness: -10.50 at 1.5 points per dollar has given -16 points.
C8_Witness ==
    /\ pc = "points"
    /\ ev.Payload.Amount = Frac(-21, 2)
    /\ loc.settings.PointsPerDollar = Frac(3, 2)
    /\ loc.pointsEarned = -16
    /\ loc.stampsEarned = 1

\* the quantity a loyalty action states
StatedQuantity(action) ==
    IF action.ActionType = "bonus_stamps" THEN action.Stamps ELSE action.Points

\* C9 (as claimed): a processed loyalty.action of type manual_points,
\* bonus_stamps, birthday_bonus or referral_bonus with a positive quantity,
\* none of whose ledger calls failed, has posted exactly one transfer of that
\* quantity with the supplied reference and ended with Success; an action of
\* any other type has ended without Success.
C9_FourActionTypes ==
    (pc = "done" /\ ev.wellformed /\ ev.EventType = "loyalty.action"
        /\ ev.Payload.kind = "action") =>
        IF ev.Payload.ActionType
               \in {"manual_points", "bonus_stamps", "birthday_bonus", "referral_bonus"}
        THEN (StatedQuantity(ev.Payload) > 0 /\ \A i \in 1..Len(calls) : ~calls[i].err)
                 => /\ Len(calls) = 1
                    /\ calls[1].req.Amount = StatedQuantity(ev.Payload)
                    /\ calls[1].req.Reference = ev.Payload.Reference
                    /\ result.Success
        ELSE ~result.Success

\* the event in hand failed enrichment or is of an unrecognized kind
NotProcessable ==
    \/ loc.customer \in {"notfound", "error"}
    \/ loc.org \in {"notfound", "error"}
    \/ ev.EventType \notin {"pos.transaction", "loyalty.action"}
    \/ /\ ev.EventType = "loyalty.action"
       /\ ev.Payload.kind = "action"
       /\ ev.Payload.ActionType \notin {"manual_points", "bonus_stamps"}

\* C10: when the customer or the organization lookup failed, or the event
\* type or the action type is not recognized, the result is a failure with
\* a reason and no ledger call was made for the event.
C10_FailedWithoutLedgerCall ==
    (pc = "done" /\ ev.wellformed /\ NotProcessable) =>
        /\ result.returned = "result"
        /\ ~result.Success
        /\ result.Error # ""
        /\ calls = <<>>
        /\ Len(transfers) = loc.base

\* C10 witness: the organization lookup of a second event failed after a
\* first event had posted to the ledger.
C10_Witness ==
    /\ pc = "done"
    /\ processed = 1
    /\ loc.customer = "ok"
    /\ loc.org = "notfound"
    /\ result.Error = "failed to get organization"
    /\ Len(transfers) = 2

\* C11: the rewards of a completed POS event are, in threshold order, one
\* per threshold whose points level is set and reached by the event's
\* points_earned or whose stamps level is set and reached by the event's
\* stamps_earned, and none for any other threshold.
C11_RewardsPerThreshold ==
    PosCompleted =>
        LET thr == loc.settings.RewardThresholds
            rewards == result.RewardsTriggered
            hit == {i \in 1..Len(thr) :
                       \/ thr[i].Points > 0 /\ loc.pointsEarned >= thr[i].Points
                       \/ thr[i].Stamps > 0 /\ loc.stampsEarned >= thr[i].Stamps}
        IN  /\ Len(rewards) = Cardinality(hit)
            /\ \A i \in hit :
                   LET k == Cardinality({j \in hit : j <= i})
                   IN  /\ rewards[k].RewardType = thr[i].RewardType
                       /\ rewards[k].RewardID
                              = <<"reward_", ToString(thr[i].Points), "_",
                                  ToString(thr[i].Stamps)>>

\* C11 witness: the customer's balance has reached the 100-point threshold
\* through an earlier event, the event in hand earned less than 75 points
\* and 1 stamp, and only the 1-stamp threshold gave a reward.
C11_Witness ==
    /\ PosCompleted
    /\ Len(loc.settings.RewardThresholds) = 4
    /\ RepoGetBalance(accounts, ev.OrgID, ev.CustomerID).points >= 100
    /\ loc.pointsEarned < 75
    /\ loc.stampsEarned = 1
    /\ Len(result.RewardsTriggered) = 1
    /\ result.RewardsTriggered[1].RewardType = "free_item"

\* C11 second witness: 100 points and 1 stamp reach three of the four
\* thresholds, the 75-point one through its points level alone.
C11_WitnessOrder ==
    /\ PosCompleted
    /\ loc.pointsEarned = 100
    /\ loc.stampsEarned = 1
    /\ Len(result.RewardsTriggered) = 3
    /\ result.RewardsTriggered[1].RewardType = "discount"
    /\ result.RewardsTriggered[2].RewardType = "free_item"
    /\ result.RewardsTriggered[3].RewardType = "gift"

\* C12: in each consumer loop every fetched message whose processing attempt
\* is over has been committed exactly once, and no message is handed to the
\* processor a second time.
InFlight(m) == msg = m /\ cpc \in {"process", "commit"}
Fetched(m) == fetches[m] > 0
C12_CommittedOnceNeverRehandled ==
    \A m \in 1..Len(klog) :
        /\ handled[m] <= 1
        /\ commits[m] <= 1
        /\ Fetched(m) /\ ~InFlight(m) => commits[m] = 1

\* C13: a finished publishEvent(topic, e) has put a copy of e on every
\* connection that was registered and stayed open and whose pattern matches
\* the topic (it equals the topic, or is "*", or starts with "*" and the
\* topic ends with the rest), and on no other connection.
PatternMatches(pattern, topic) ==
    \/ pattern = topic
    \/ pattern = <<"*">>
    \/ /\ Len(pattern) > 0
       /\ pattern[1] = "*"
       /\ \E i \in 0..Len(topic) :
              SubSeq(topic, i + 1, Len(topic)) = Tail(pattern)
Finished(p) == p \in 1..npub /\ pubs[p].state \in {"done", "aborted"}
C13_DeliveredIffMatches ==
    \A p \in 1..MaxPublishes :
        Finished(p) =>
            /\ \A c \in pubs[p].targets :
                   conns[c].state = "open"
                       /\ PatternMatches(conns[c].pattern, pubs[p].topic)
                   => c \in pubs[p].delivered
            /\ \A c \in pubs[p].delivered :
                   /\ c \in pubs[p].targets
                   /\ PatternMatches(conns[c].pattern, pubs[p].topic)

\* C14: the events one subscriber's ReadEvent calls have returned are in
\* the order in which the publish requests reached publishEvent.
C14_ReadInPublishOrder ==
    \A c \in 1..MaxConns :
        \A i, j \in 1..Len(got[c]) : i < j => got[c][i] < got[c][j]

\* C15: a pos.transaction processed for a customer with an activity record
\* leaves the stored record with total_transactions = old + 1, total_spent =
\* old + amount, last_transaction = the later of the old one and the
\* transaction's time, first_transaction = the earlier of the old one and
\* the transaction's time.
Later(a, b) == IF a >= b THEN a ELSE b
Earlier(a, b) == IF a <= b THEN a ELSE b
ProcessedPosFor(c, e) ==
    /\ e.wellformed /\ e.EventType = "pos.transaction"
    /\ e.Payload.kind = "pos" /\ e.CustomerID = c
    /\ rfmEvents' = rfmEvents + 1
    /\ rfmLast' = "ok"
    /\ \E read, write, score \in StorageOutcomes :
           RfmProcessMessage(e, read, write, score)
C15_ActivityUpdate ==
    [][\A c \in Customers, e \in AnalyticsEvents :
          activities[c].present /\ ProcessedPosFor(c, e) =>
              /\ activities'[c].TotalTransactions
                     = activities[c].TotalTransactions + 1
              /\ activities'[c].TotalSpent
                     = Add(activities[c].TotalSpent, e.Payload.Amount)
              /\ activities'[c].LastTransaction
                     = Later(activities[c].LastTransaction, e.Payload.Timestamp)
              /\ activities'[c].FirstTransaction
                     = Earlier(activities[c].FirstTransaction,
                               e.Payload.Timestamp)]_vars

\* C16: a customer's stored total_transactions and total_spent never
\* decrease.
C16_TotalsNeverDecrease ==
    [][\A c \in Customers :
          /\ activities'[c].TotalTransactions
                 >= activities[c].TotalTransactions
          /\ ~Less(activities'[c].TotalSpent, activities[c].TotalSpent)]_vars

\* C17: after ProcessCustomerMetrics the saved current_tier is the name of
\* the highest-level rule of the rule set whose four thresholds are all met
\* (>=), in whatever order the rules are listed, and of the lowest-level rule
\* when none is met; (250, 100, 5, 3) under the default rules is Silver.
RuleSet(rules) == {rules[i] : i \in 1..Len(rules)}
Meets(m, r) ==
    /\ ~Less(m.TotalSpent, r.MinSpentLifetime)
    /\ ~Less(m.SpentThisYear, r.MinSpentYear)
    /\ m.TotalVisits >= r.MinVisitsLifetime
    /\ m.VisitsThisYear >= r.MinVisitsYear
HighestMet(m, rules) ==
    LET met == {r \in RuleSet(rules) : Meets(m, r)}
        from == IF met = {} THEN RuleSet(rules) ELSE met
    IN  CHOOSE r \in from :
            \A q \in from : IF met = {} THEN r.Level <= q.Level
                            ELSE r.Level >= q.Level
Evaluated == tierLast.outcome = "ok"
SilverBoundary ==
    /\ tierLast.metrics.TotalSpent = Frac(250, 1)
    /\ tierLast.metrics.SpentThisYear = Frac(100, 1)
    /\ tierLast.metrics.TotalVisits = 5
    /\ tierLast.metrics.VisitsThisYear = 3
C17_HighestTierMet ==
    Evaluated =>
        /\ tiers.CurrentTier = HighestMet(tierLast.metrics, tierLast.rules).Name
        /\ SilverBoundary /\ RuleSet(tierLast.rules) = RuleSet(GetDefaultTierRules)
               => tiers.CurrentTier = "Silver"
C17_Witness ==
    /\ Evaluated /\ SilverBoundary
    /\ tierLast.rules = Reverse(GetDefaultTierRules)
    /\ tiers.CurrentTier = "Silver"
C17_WitnessLowest ==
    /\ Evaluated
    /\ \A r \in RuleSet(tierLast.rules) : ~Meets(tierLast.metrics, r)
    /\ tiers.CurrentTier = "Bronze"

\* C18: an evaluation of a customer with a tier record emits a TierUpgrade
\* only when the computed tier differs from the current_tier before it; when
\* they are equal nothing is emitted and previous_tier and tier_since stay;
\* an emitted record goes from the old current_tier to the new tier with the
\* transaction's amount as trigger_value.
EvaluationStep == tierEvents' = tierEvents + 1 /\ tierLast'.outcome = "ok"
Emits == Len(upgrades') = Len(upgrades) + 1
C18_UpgradeOnlyOnChange ==
    [][tiers.present /\ EvaluationStep =>
          /\ Emits =>
                 /\ tiers'.CurrentTier # tiers.CurrentTier
                 /\ upgrades'[Len(upgrades')] =
                        [FromTier |-> tiers.CurrentTier,
                         ToTier |-> tiers'.CurrentTier,
                         TriggerValue |-> tierLast'.metrics.TransactionAmount]
          /\ tiers'.CurrentTier = tiers.CurrentTier =>
                 /\ upgrades' = upgrades
                 /\ tiers'.PreviousTier = tiers.PreviousTier
                 /\ tiers'.TierSince = tiers.TierSince]_vars

\* C19: the first evaluation of a customer without a tier record starts
\* from the lowest tier of the rule set and emits no TierUpgrade.
LowestRule(rules) ==
    CHOOSE r \in RuleSet(rules) : \A q \in RuleSet(rules) : r.Level <= q.Level
C19_FirstEvaluationSilent ==
    [][~tiers.present /\ EvaluationStep =>
          /\ upgrades' = upgrades
          /\ tiers'.PreviousTier # "" =>
                 tiers'.PreviousTier = LowestRule(tierLast'.rules).Name]_vars

\* C20: a transaction processed for a customer with a tier record makes the
\* annual (monthly) spend and visits the amount and 1 when the stored
\* last_transaction is before the start of the current year (month), and
\* the stored counters plus the amount and plus 1 otherwise; the lifetime
\* counters grow by the amount and by 1.
C20_CounterReset ==
    [][tiers.present /\ EvaluationStep =>
          LET amount == tierLast'.metrics.TransactionAmount
              newYear == tiers.LastTransaction < yearStart(clock)
              newMonth == tiers.LastTransaction < monthStart(clock)
          IN  /\ tiers'.SpentThisYear =
                     IF newYear THEN amount
                     ELSE Add(tiers.SpentThisYear, amount)
              /\ tiers'.VisitsThisYear =
                     IF newYear THEN 1 ELSE tiers.VisitsThisYear + 1
              /\ tiers'.SpentThisMonth =
                     IF newMonth THEN amount
                     ELSE Add(tiers.SpentThisMonth, amount)
              /\ tiers'.VisitsThisMonth =
                     IF newMonth THEN 1 ELSE tiers.VisitsThisMonth + 1
              /\ tiers'.TotalSpent = Add(tiers.TotalSpent, amount)
              /\ tiers'.TotalVisits = tiers.TotalVisits + 1]_vars

\* the rules of the cascade in their order
CascadeRules(r, f, m) ==
    <<<<r >= 4 /\ f >= 4 /\ m >= 4, "Champions">>,
      <<r >= 3 /\ f >= 3 /\ m >= 3, "Loyal Customers">>,
      <<r >= 3 /\ f <= 2 /\ m <= 2, "Potential Loyalists">>,
      <<r >= 4 /\ f <= 2 /\ m <= 2, "New Customers">>,
      <<r <= 2 /\ f >= 4 /\ m >= 4, "Cannot Lose Them">>,
      <<r <= 2 /\ f >= 3 /\ m >= 3, "At Risk">>,
      <<r <= 3 /\ f <= 2 /\ m >= 3, "Need Attention">>,
      <<r <= 2 /\ f <= 2 /\ m >= 3, "About to Sleep">>>>

\* C21: for r, f, m in 1..5 getRFMSegment returns the label of the table
\* when the three-digit key is in it and otherwise the label of the first
\* rule of the cascade that matches, "Lost" when none does; (5,5,5) gives
\* "Champions", (1,1,1) gives "Lost", and the result is one of the nine
\* segment labels.
C21_SegmentOfScores ==
    calcLast.op = "getRFMSegment" =>
        LET key == calcLast.args
            entries == {e \in RFMSegments : e[1] = key}
            rules == CascadeRules(key[1], key[2], key[3])
            matching == {i \in 1..Len(rules) : rules[i][1]}
        IN  /\ calcLast.result \in SegmentLabels
            /\ \A e \in entries : calcLast.result = e[2]
            /\ entries = {} /\ matching = {} => calcLast.result = "Lost"
            /\ entries = {} /\ matching # {} =>
                   calcLast.result =
                       rules[CHOOSE i \in matching :
                                 \A j \in matching : i <= j][2]
            /\ key = <<5, 5, 5>> => calcLast.result = "Champions"
            /\ key = <<1, 1, 1>> => calcLast.result = "Lost"

\* a key of the table whose label differs from the cascade's has been scored
C21_Witness ==
    /\ calcLast.op = "getRFMSegment"
    /\ calcLast.args = <<3, 3, 3>>
    /\ calcLast.result = "New Customers"

\* a key outside the table has been scored by the cascade
C21_WitnessCascade ==
    /\ calcLast.op = "getRFMSegment"
    /\ calcLast.args = <<2, 2, 3>>
    /\ calcLast.result = "Need Attention"

\* C22: getRecencyScore(d, q) is 5 - i for the smallest index i, counted
\* from 0, with q[i] >= d and 1 when there is none; for non-decreasing q of
\* five elements it is in 1..5 and a larger d never gives a larger score.
C22_RecencyScore ==
    calcLast.op = "getRecencyScore" =>
        LET d == calcLast.args[1]
            q == calcLast.args[2]
            reached == {i \in 0..(Len(q) - 1) : q[i + 1] >= d}
        IN  /\ calcLast.result =
                   IF reached = {} THEN 1
                   ELSE 5 - (CHOOSE i \in reached : \A j \in reached : i <= j)
            /\ calcLast.result \in 1..5
            /\ \A later \in Days :
                   later >= d => getRecencyScore(later, q) <= calcLast.result

\* the days equal a boundary that is not the first
C22_Witness ==
    /\ calcLast.op = "getRecencyScore"
    /\ calcLast.args = <<1, <<0, 1, 1, 2, 3>>>>
    /\ calcLast.result = 4

\* C23: getFrequencyScore and getMonetaryScore are i + 1 for the largest
\* index i, counted from 0, with q[i] <= value and 1 when there is none; for
\* non-decreasing q of five elements the score is in 1..5 and a larger value
\* never gives a smaller score.
C23_FrequencyMonetaryScore ==
    /\ calcLast.op = "getFrequencyScore" =>
           LET v == calcLast.args[1]
               q == calcLast.args[2]
               reached == {i \in 0..(Len(q) - 1) : q[i + 1] <= v}
           IN  /\ calcLast.result =
                      IF reached = {} THEN 1
                      ELSE (CHOOSE i \in reached :
                                \A j \in reached : i >= j) + 1
               /\ calcLast.result \in 1..5
               /\ \A more \in Days :
                      more >= v =>
                          getFrequencyScore(more, q) >= calcLast.result
    /\ calcLast.op = "getMonetaryScore" =>
           LET v == calcLast.args[1]
               q == calcLast.args[2]
               reached == {i \in 0..(Len(q) - 1) : ~Less(v, q[i + 1])}
           IN  /\ calcLast.result =
                      IF reached = {} THEN 1
                      ELSE (CHOOSE i \in reached :
                                \A j \in reached : i >= j) + 1
               /\ calcLast.result \in 1..5
               /\ \A more \in Spends :
                      ~Less(more, v) =>
                          getMonetaryScore(more, q) >= calcLast.result

\* the value equals a boundary that is repeated and is not the last
C23_Witness ==
    /\ calcLast.op = "getFrequencyScore"
    /\ calcLast.args = <<1, <<0, 1, 1, 2, 3>>>>
    /\ calcLast.result = 3

\* a spend between two boundaries
C23_WitnessMonetary ==
    /\ calcLast.op = "getMonetaryScore"
    /\ calcLast.args[1] = Frac(3, 2)
    /\ calcLast.result = 3

\* ceil(a / b) of naturals
CeilDiv(a, b) == (a + b - 1) \div b

\* C24: for n >= 5 values, boundary i (0..4) of calculateIntQuintiles and of
\* calculateFloatQuintiles is the element at index ceil((i+1)/5 * n) - 1 of
\* the values sorted ascending.
C24_BoundaryIndex ==
    /\ calcLast.op = "calculateIntQuintiles" =>
           LET values == calcLast.args[1]
               n == Len(values)
               sorted == SortSeq(values, LAMBDA a, b : a < b)
           IN  n >= 5 =>
                   \A i \in 0..4 :
                       calcLast.result[i + 1] =
                           sorted[(CeilDiv((i + 1) * n, 5) - 1) + 1]
    /\ calcLast.op = "calculateFloatQuintiles" =>
           LET values == calcLast.args[1]
               n == Len(values)
               sorted == SortSeq(values, Less)
           IN  n >= 5 =>
                   \A i \in 0..4 :
                       calcLast.result[i + 1] =
                           sorted[(CeilDiv((i + 1) * n, 5) - 1) + 1]

NonDecreasing(q) == \A i \in 1..(Len(q) - 1) : q[i] <= q[i + 1]

\* C25: CalculateQuintilesForOrg returns five boundaries for each of
\* recency, frequency and monetary, each at least the previous one, whatever
\* the activities of the organization; with fewer than five customers it
\* returns 7/30/90/180/365, 1/2/5/10/20 and 10/25/50/100/250.
C25_FiveOrderedBoundaries ==
    calcLast.op = "CalculateQuintilesForOrg" /\ ~calcLast.result.err =>
        LET acts == calcLast.args[1]
            q == calcLast.result
        IN  /\ Len(q.RecencyQuintiles) = 5
            /\ Len(q.FrequencyQuintiles) = 5
            /\ Len(q.MonetaryQuintiles) = 5
            /\ NonDecreasing(q.RecencyQuintiles)
            /\ NonDecreasing(q.FrequencyQuintiles)
            /\ \A i \in 1..4 :
                   ~Less(q.MonetaryQuintiles[i + 1], q.MonetaryQuintiles[i])
            /\ Len(acts) < 5 =>
                   /\ q.RecencyQuintiles = <<7, 30, 90, 180, 365>>
                   /\ q.FrequencyQuintiles = <<1, 2, 5, 10, 20>>
                   /\ q.MonetaryQuintiles =
                          <<Frac(10, 1), Frac(25, 1), Frac(50, 1),
                            Frac(100, 1), Frac(250, 1)>>

\* the quintiles of five or more customers whose activities differ and are
\* not stored in ascending order
C25_Witness ==
    /\ calcLast.op = "CalculateQuintilesForOrg"
    /\ ~calcLast.result.err
    /\ Len(calcLast.args[1]) >= 5
    /\ calcLast.args[1][1].TotalTransactions
           > calcLast.args[1][2].TotalTransactions
    /\ calcLast.result.FrequencyQuintiles[1]
           < calcLast.result.FrequencyQuintiles[5]
    /\ calcLast.result.RecencyQuintiles[1] < 0

\* fewer than five customers
C25_WitnessDefaults ==
    /\ calcLast.op = "CalculateQuintilesForOrg"
    /\ ~calcLast.result.err
    /\ Len(calcLast.args[1]) = 4

\* the value clamped into the range [0, 1]
Clamp01(x) == IF Less(x, Zero) THEN Zero ELSE IF Less(One, x) THEN One ELSE x

\* C26: in every saved CustomerTier record that has a next tier,
\* progress_to_next is the average of annual spend over the next rule's
\* annual-spend threshold and annual visits over its annual-visits
\* threshold, clamped into [0, 1]; so it is at least 0 and at most 1.
C26_ProgressClamped ==
    tiers.present /\ tiers.NextTier # "" =>
        LET next == CHOOSE r \in RuleSet(GetDefaultTierRules) :
                        r.Name = tiers.NextTier
            spent == Div(tiers.SpentThisYear, next.MinSpentYear)
            visits == Norm(Frac(tiers.VisitsThisYear, next.MinVisitsYear))
            average == Div(Add(spent, visits), Frac(2, 1))
        IN  /\ tiers.ProgressToNext = Clamp01(average)
            /\ LessEq(Zero, tiers.ProgressToNext)
            /\ LessEq(tiers.ProgressToNext, One)

\* the request of the last response is invalid: its body does not bind, or
\* an identifier or query parameter is missing
InvalidRequest ==
    \/ served.op = "CreateAccount" /\ ~BindAccountRequest(served.request)
    \/ served.op = "CreateTransfer" /\ ~BindTransferRequest(served.request)
    \/ served.op = "GetAccount" /\ served.request = EmptyStr
    \/ served.op = "GetBalance"
       /\ (served.request[1] = EmptyStr \/ served.request[2] = EmptyStr)

\* C27: a malformed or invalid body, or a missing org_id or customer_id
\* query parameter, gives 400 without a call of the repository; a failed
\* account lookup gives 404; a repository failure in CreateAccount,
\* CreateTransfer or GetBalance gives 500; every error response is a JSON
\* object with an "error" field.
C27_StatusByCategory ==
    [][served'.op # "none" /\ served' # served =>
          /\ served'.status \in {200, 201, 400, 404, 500}
          /\ InvalidRequest' <=> served'.status = 400
          /\ served'.status = 400 => served'.repoCalls = 0
          /\ served'.status = 404 =>
                 served'.op = "GetAccount" /\ served'.repoCalls = 1
          /\ served'.status = 500 =>
                 /\ served'.op \in {"CreateAccount", "CreateTransfer",
                                    "GetBalance"}
                 /\ served'.repoCalls = 1
          /\ served'.status \in {200, 201} => "error" \notin served'.fields
          /\ served'.status \in {400, 404, 500} =>
                 "error" \in served'.fields]_vars

\* a valid transfer request whose repository call failed
C27_Witness ==
    /\ served.op = "CreateTransfer"
    /\ BindTransferRequest(served.request)
    /\ served.status = 500
    /\ served.fields = {"error"}

\* a failed account lookup
C27_WitnessNotFound ==
    /\ served.op = "GetAccount"
    /\ served.status = 404

\* the RFM processor takes the step of handling the transaction e of c
HandledPosFor(c, e) ==
    /\ e.wellformed /\ e.EventType = "pos.transaction"
    /\ e.Payload.kind = "pos" /\ e.CustomerID = c
    /\ rfmEvents' = rfmEvents + 1
    /\ \E read, write, score \in StorageOutcomes :
           RfmProcessMessage(e, read, write, score)

\* C30: processing the first pos.transaction of a customer without a stored
\* activity record creates a record with total_transactions = 1, total_spent
\* = the amount and first_transaction = last_transaction = the
\* transaction's time, and saves an RFM score for the customer.
C30_FirstTransactionCreatesRecord ==
    [][\A c \in Customers, e \in AnalyticsEvents :
          ~activities[c].present /\ HandledPosFor(c, e) =>
              /\ activities'[c].present
              /\ activities'[c].TotalTransactions = 1
              /\ activities'[c].TotalSpent = e.Payload.Amount
              /\ activities'[c].FirstTransaction = e.Payload.Timestamp
              /\ activities'[c].LastTransaction = e.Payload.Timestamp
              /\ scores'[c].present]_vars

\* C29: in each of the three consumer loops, when the processing of a
\* message m has failed and a later message the service processes is in the
\* log, that message is eventually handed to the processor.
C29_FailureDoesNotStopLoop ==
    \A m \in 1..MaxMessages :
        \A n \in (m + 1)..MaxMessages :
            (failed[m] /\ n <= Len(klog) /\ ShouldProcess(service, klog[n]))
                ~> (handled[n] > 0)

\* C28: processing the same event again applies its effects again. In a run
\* where one transaction event is delivered repeatedly: a transfer the ledger
\* serves for the event while a transfer of the same reference and code is
\* already recorded is recorded once more and credits the customer's account
\* by the earned quantity once more; a processing by the RFM processor that
\* reads the stored activity and writes it back adds one transaction and the
\* amount to the activity's totals; a processing by the tier processor that
\* reads the stored record and saves it adds one visit and the amount to the
\* lifetime, yearly and monthly counters. Nothing compares event ids or
\* transfer references.
PosRecorded(xfers, code) ==
    Cardinality({i \in 1..Len(xfers) :
                    /\ xfers[i].Reference = PosReference(RedeliveredPOS.Payload)
                    /\ xfers[i].Code = code})

CustomerCredits(accts) ==
    LET id == generateCustomerPointsAccount(OrgA, CustC)
    IN  IF id \in DOMAIN accts THEN accts[id].CreditsPosted ELSE 0

LedgerAppliedAgain ==
    \A net \in {"ok", "timeout"} :
        /\ (PostPoints(net) /\ PointsToPost(loc.pointsEarned)
               /\ PosRecorded(transfers, 1) > 0)
           => /\ PosRecorded(transfers', 1) = PosRecorded(transfers, 1) + 1
              /\ CustomerCredits(accounts')
                     = (CustomerCredits(accounts) + loc.pointsEarned) % UintMod
        /\ (PostStamps(net) /\ StampsToPost(loc.stampsEarned)
               /\ PosRecorded(transfers, 2) > 0)
           => /\ PosRecorded(transfers', 2) = PosRecorded(transfers, 2) + 1
              /\ CustomerCredits(accounts')
                     = (CustomerCredits(accounts) + loc.stampsEarned) % UintMod

ActivityAppliedAgain ==
    \A score \in StorageOutcomes :
        (/\ activities[CustC].present
         /\ RfmProcessMessage(RedeliveredTx, "ok", "ok", score))
        => /\ activities'[CustC].TotalTransactions
                  = activities[CustC].TotalTransactions + 1
           /\ activities'[CustC].TotalSpent
                  = Add(activities[CustC].TotalSpent,
                        RedeliveredTx.Payload.Amount)

TierAppliedAgain ==
    \A cfg \in ConfigOutcomes, read \in StorageOutcomes :
        (/\ tiers.present
         /\ tierEvents' = tierEvents + 1
         /\ ProcessCustomerMetrics(
                BuildMetrics(tiers, RedeliveredTx.Payload, clock), cfg, read,
                "ok"))
        => /\ tiers'.TotalVisits = tiers.TotalVisits + 1
           /\ tiers'.VisitsThisYear = tiers.VisitsThisYear + 1
           /\ tiers'.VisitsThisMonth = tiers.VisitsThisMonth + 1
           /\ tiers'.TotalSpent
                  = Add(tiers.TotalSpent, RedeliveredTx.Payload.Amount)
           /\ tiers'.SpentThisYear
                  = Add(tiers.SpentThisYear, RedeliveredTx.Payload.Amount)
           /\ tiers'.SpentThisMonth
                  = Add(tiers.SpentThisMonth, RedeliveredTx.Payload.Amount)

C31_FirstNotAfterLast ==
    \A c \in Customers :
        activities[c].present
            => activities[c].FirstTransaction <= activities[c].LastTransaction

\* C32: for a customer whose transaction events carry their timestamp in
\* the envelope and not in the payload, all processed within one calendar
\* year, every processed event adds one to the stored visits_this_year and
\* its amount to the stored spent_this_year (so that after the N-th event
\* they are N and the sum of the N amounts); the first event makes them 1
\* and its amount.
InYearOfStart == yearStart(clock) = MonthsPerYear
EnvelopeOnly(record) == record.LastTransaction = ZeroTime
C32_AnnualCountersAccumulate ==
    [][(/\ EvaluationStep
        /\ InYearOfStart
        /\ EnvelopeOnly(tierLast'.metrics)
        /\ tiers.present => EnvelopeOnly(tiers))
       => /\ tiers'.VisitsThisYear
                 = IF tiers.present THEN tiers.VisitsThisYear + 1 ELSE 1
          /\ tiers'.SpentThisYear
                 = IF tiers.present
                   THEN Add(tiers.SpentThisYear,
                            tierLast'.metrics.TransactionAmount)
                   ELSE tierLast'.metrics.TransactionAmount]_vars

\* C33: for a POS event ProcessEvent runs parse, customer lookup,
\* organization lookup, computation, points transfer, stamps transfer and
\* reward check in this order; it ends in exactly one of Completed (Success)
\* and Failed (an error text and no Success); Completed is reached only when
\* both lookups and every attempted transfer succeeded; nothing runs after
\* the first failing step.
InHandPOS == pc # "idle" /\ ev.wellformed /\ ev.EventType = "pos.transaction"
Parsed == ev.Payload.kind = "pos"
CallCodes == [i \in 1..Len(calls) |-> calls[i].req.Code]
NoCallFailed == \A i \in 1..Len(calls) : ~calls[i].err
ExpectedCodes ==
    (IF PointsToPost(loc.pointsEarned) THEN <<1>> ELSE <<>>)
        \o (IF StampsToPost(loc.stampsEarned) THEN <<2>> ELSE <<>>)
IsPrefix(p, q) == Len(p) <= Len(q) /\ \A i \in 1..Len(p) : p[i] = q[i]
StepsInOrder ==
    /\ loc.customer # "none" => Parsed
    /\ loc.org # "none" => loc.customer = "ok"
    /\ calls # <<>> => loc.org = "ok"
    /\ IsPrefix(CallCodes, ExpectedCodes)
    /\ \A i \in 1..Len(calls) : calls[i].err => i = Len(calls)
    /\ pc = "customer" => Parsed /\ loc.customer = "none"
    /\ pc = "org" => loc.customer = "ok" /\ loc.org = "none"
    /\ pc = "points" => loc.org = "ok" /\ calls = <<>>
    /\ pc = "stamps"
          => /\ NoCallFailed
             /\ CallCodes = (IF PointsToPost(loc.pointsEarned) THEN <<1>>
                              ELSE <<>>)
    /\ pc = "rewards" => NoCallFailed /\ CallCodes = ExpectedCodes
    /\ pc # "done" => ~result.Success /\ result.Error = ""
Completed == result.returned = "result" /\ result.Success /\ result.Error = ""
FailedOutcome ==
    result.returned = "result" /\ ~result.Success /\ result.Error # ""
EndsInOne ==
    pc = "done"
        => /\ Completed \/ FailedOutcome
           /\ Completed
                 => /\ Parsed /\ loc.customer = "ok" /\ loc.org = "ok"
                    /\ NoCallFailed
                    /\ CallCodes = ExpectedCodes
           /\ FailedOutcome
                 => /\ result.RewardsTriggered = <<>>
                    /\ \/ ~Parsed
                       \/ loc.customer \in {"notfound", "error"}
                       \/ loc.org \in {"notfound", "error"}
                       \/ calls # <<>> /\ calls[Len(calls)].err
C33_StepsInOrderToOneOutcome == InHandPOS => StepsInOrder /\ EndsInOne

\* a Completed event with both transfers, and an event that Failed at its
\* points transfer
C33_Witness ==
    InHandPOS /\ pc = "done" /\ Completed /\ CallCodes = <<1, 2>>
C33_WitnessFailed ==
    /\ InHandPOS /\ pc = "done" /\ FailedOutcome
    /\ CallCodes = <<1>> /\ StampsToPost(loc.stampsEarned)

\* C34: an event whose result is Failed leaves no ledger effect: the
\* ledger records no transfer for it, also when the stamps transfer fails
\* after the points transfer was posted.
C34_FailedLeavesNoEffect ==
    (pc = "done" /\ FailedOutcome) => Len(transfers) = loc.base

\* C35: whatever the interleaving of the CreateTransfer requests in flight,
\* no increment is lost: once no request is in flight every account's
\* debits_posted and credits_posted are the sums of the amounts of the
\* recorded transfers that debit and that credit it, and the debits_posted
\* of all accounts add up to the credits_posted of all accounts.
RECURSIVE SumAmounts(_, _, _)
SumAmounts(xfers, id, isDebit) ==
    IF xfers = <<>> THEN 0
    ELSE LET t == xfers[Len(xfers)]
             hit == IF isDebit THEN t.DebitAccountID = id
                    ELSE t.CreditAccountID = id
         IN  SumAmounts(SubSeq(xfers, 1, Len(xfers) - 1), id, isDebit)
             + (IF hit THEN t.Amount ELSE 0)
RECURSIVE SumPosted(_, _, _)
SumPosted(accts, ids, isDebit) ==
    IF ids = {} THEN 0
    ELSE LET id == CHOOSE x \in ids : TRUE
         IN  SumPosted(accts, ids \ {id}, isDebit)
             + (IF isDebit THEN accts[id].DebitsPosted
                ELSE accts[id].CreditsPosted)
Quiescent == ~crashed /\ \A g \in Goroutines : workers[g].pc \in {"idle", "done"}
C35_NoIncrementLost ==
    Quiescent
        => /\ \A id \in DOMAIN accounts :
                  /\ accounts[id].DebitsPosted
                         = SumAmounts(transfers, id, TRUE) % UintMod
                  /\ accounts[id].CreditsPosted
                         = SumAmounts(transfers, id, FALSE) % UintMod
           /\ SumPosted(accounts, DOMAIN accounts, TRUE) % UintMod
                  = SumPosted(accounts, DOMAIN accounts, FALSE) % UintMod

\* C36: delivery to one subscriber does not depend on another: a
\* subscriber that is connected and in line for a published event gets the
\* event written to its connection, or stops being connected itself,
\* whatever happens to the writes to the other subscribers.
InLine(p, c) == \E i \in 1..Len(pubs[p].todo) : pubs[p].todo[i] = c
C36_NoSubscriberBlocksAnother ==
    \A p \in 1..MaxPublishes :
        \A c \in 1..MaxConns :
            (p \in Publishing /\ InLine(p, c) /\ conns[c].state = "open")
                ~> (c \in pubs[p].delivered \/ conns[c].state # "open")

\* C37: after the shutdown signal the consumer stops its loop and closes
\* its reader; the message in hand when the signal arrived has been
\* processed and committed when the loop has exited; no message is fetched
\* once the context is cancelled.
StoppedAfterSignal == cpc = "down" /\ cancelled.done
InHandCommitted ==
    (StoppedAfterSignal /\ cancelled.during # NoMessage)
        => /\ ShouldProcess(service, klog[cancelled.during])
                 => handled[cancelled.during] > 0
           /\ committed = cancelled.during + 1
NoFetchOnceCancelled ==
    [][cancelled.done => fetches' = fetches]_vars
EventuallyStopped == cancelled.done ~> cpc = "down"
C37_ShutdownCompletesInHand ==
    /\ []InHandCommitted
    /\ NoFetchOnceCancelled
    /\ EventuallyStopped

\* C38: after an evaluation the stored next_tier is the name of the
\* lowest-level rule of the organization's rule set above the level of the
\* stored current tier; when the current tier is the highest rule of the set
\* next_tier is empty and progress_to_next is 1.
C38_NextTierFromConfiguredRules ==
    tierLast.outcome = "ok"
        => LET rules == RuleSet(tierLast.rules)
               current == CHOOSE r \in rules : r.Name = tiers.CurrentTier
               higher == {r \in rules : r.Level > current.Level}
           IN  IF higher = {}
               THEN tiers.NextTier = "" /\ tiers.ProgressToNext = One
               ELSE tiers.NextTier
                        = (CHOOSE r \in higher :
                               \A q \in higher : r.Level <= q.Level).Name

\* C39: every emitted TierUpgrade goes to a tier of a strictly higher
\* level than the tier it comes from; an evaluation or a recalculation that
\* lowers the customer's tier emits none.
LevelOf(name) ==
    (CHOOSE r \in RuleSet(GetDefaultTierRules) \cup RuleSet(CustomRules) :
         r.Name = name).Level
C39_UpgradesGoUp ==
    \A i \in 1..Len(upgrades) :
        LevelOf(upgrades[i].ToTier) > LevelOf(upgrades[i].FromTier)

\* the event in hand is a manual_points action with no positive points or a
\* bonus_stamps action with no positive stamps
NothingToAward ==
    /\ ev.wellformed
    /\ ev.EventType = "loyalty.action"
    /\ ev.Payload.kind = "action"
    /\ \/ ev.Payload.ActionType = "manual_points" /\ ev.Payload.Points <= 0
       \/ ev.Payload.ActionType = "bonus_stamps" /\ ev.Payload.Stamps <= 0

\* C40: a manual_points action with points <= 0, or a bonus_stamps action
\* with stamps <= 0, posts no ledger transfer and its result is Success with
\* zero points and stamps earned and an empty action list.
C40_NothingToAwardIsSuccess ==
    (pc # "idle" /\ NothingToAward) =>
        /\ pc = "done"
        /\ calls = <<>>
        /\ Len(transfers) = loc.base
        /\ result.returned = "result"
        /\ result.Success
        /\ result.Error = ""
        /\ result.PointsEarned = 0
        /\ result.StampsEarned = 0
        /\ result.Actions = <<>>

\* C40 witness: a manual_points action of -5 points has been processed.
C40_Witness ==
    /\ pc = "done"
    /\ NothingToAward
    /\ ev.Payload.ActionType = "manual_points"
    /\ ev.Payload.Points = -5
    /\ result.Success

\* C40 witness: a bonus_stamps action of 0 stamps has been processed.
C40_WitnessStamps ==
    /\ pc = "done"
    /\ NothingToAward
    /\ ev.Payload.ActionType = "bonus_stamps"
    /\ ev.Payload.Stamps = 0
    /\ result.Success

====
